---- MODULE Spec2Model ----
(***************************************************************************)
(* Verification model of the content pipeline core of auto_blog:           *)
(*   - llm/analyzer.py  ContentAnalyzer (staged LLM pipeline)              *)
(*   - llm/prompts.py   get_prompt (template lookup and formatting)        *)
(*   - filters/dedup.py Deduplicator                                       *)
(* Text is modelled as sequences of tokens; a dict as a function whose     *)
(* domain is its key set.                                                  *)
(***************************************************************************)
EXTENDS Integers, Sequences, FiniteSets, TLC

VARIABLES
    stages,     \* ContentAnalyzer.stages (config 'prompt_stages')
    entry,      \* which public method was called: analyze / analyze_for_medium
    pc,         \* position inside the running method
    item,       \* the content item passed to the method
    idx,        \* 1-based index of the next stage of the loop in analyze
    analysis,   \* the analysis dict being built (function: key -> value)
    diagrams,   \* the diagrams dict of _generate_diagrams
    attempts,   \* history: one record per stage or extra step run so far
    vpc,        \* validate_linkedin_safety: "idle" or "validated"
    vcontent,   \* the post content passed to validate_linkedin_safety
    vgen,       \* history: what client.generate did for the validation prompt
    vresult,    \* the dict validate_linkedin_safety returned
    dpc,        \* Deduplicator: "idle", "once" (deduplicate ran), "twice" (ran on its output)
    dconfig,    \* Deduplicator config: similarity_threshold and use_url_hash
    ditems,     \* the item list passed to deduplicate
    dout,       \* what deduplicate returned for ditems
    dout2,      \* what deduplicate returned for dout
    rpc,        \* ContentRanker: "idle" or "ranked"
    ritems,     \* the item list passed to rank
    rresult,    \* what rank did: the ranked list with scores, or the exception
    fpc,        \* RelevanceFilter: "idle" or "filtered"
    fconfig,    \* the configuration the filter was built from
    fitems,     \* the item list passed to filter
    fresult,    \* what filter did: the accepted items, or the exception
    cpc,        \* PerplexityClient: "idle" or "calling" (inside generate's loop)
    cconfig,    \* max_retries and requests_per_minute of the client
    now,        \* time.time(), in seconds
    last_request_time,
    attempt,    \* loop variable of generate
    cattempts,  \* outcome of each attempt of the current generate call
    crequests,  \* start time of every API request of this client
    cresult,    \* how the last generate call ended
    ccalls,     \* number of generate calls made
    bpc,        \* generate command: "loop", "done", or "aborted" by an exception
    bformat,    \* the --format option
    bcount,     \* the --count option
    bitems,     \* the items loaded from latest.json, cut to count
    bidx,       \* position of the next item of the for loop
    generated_count,
    bprocessed, \* positions of the items whose try block was entered
    bsaved,     \* drafts saved: pairs of item position and content type
    bmessage,   \* the final "Generated content for ..." message, if printed
    bexit,      \* exit status of the command once it is "done" or "aborted"
    epc,        \* ArxivEnhancer: "idle" or "enhanced"
    ethreshold, \* relevancy_threshold, in tenths
    epaper,     \* the paper passed to enhance_arxiv_paper
    ecalls,     \* what the three generate calls do, in call order
    eresult,    \* what enhance_arxiv_paper did
    lpc,        \* LinkedIn post of one item: "idle", "formatted", "saved", "skipped"
    lcontent,   \* the content generate_linkedin returned
    lvalidation,\* the result of validate_linkedin_safety for it
    lpost,      \* the post LinkedInFormatter.format returned
    ldraft,     \* the draft saved by the generate command, if any
    spc,        \* API server: where each publish request stands
    stype,      \* content_type of the row with the requested id, or "missing"
    sstatus,    \* status of that row in generated_content
    sposts,     \* number of posts made to LinkedIn for it
    sresponse,  \* the response each request was answered with
    tpc,        \* article CLI: "idle", or "stored" inside generate --publish
    tid,        \* the article id of the command under way
    tstatus,    \* stored status of each article
    tmarkdown,  \* whether each article has stored markdown
    tposted,    \* number of Medium publish calls that returned, per article
    tran,       \* number of commands started
    ppc,        \* publish command: "idle" or "publishing"
    pplatform,  \* the --platform option of the last publish run
    pcreds,     \* which credentials are configured (LinkedIn, Medium)
    pinit,      \* platforms whose publisher the run initialised
    ploops,     \* platforms whose draft loop the run enters
    pqueue,     \* drafts the run has still to go through
    prows,      \* the generated_content table, in insertion order
    pdrafts,    \* files under data/drafts
    pmoved      \* files moved to data/published

avars == <<stages, entry, pc, item, idx, analysis, diagrams, attempts>>
vvars == <<vpc, vcontent, vgen, vresult>>
dvars == <<dpc, dconfig, ditems, dout, dout2>>
rvars == <<rpc, ritems, rresult>>
fvars == <<fpc, fconfig, fitems, fresult>>
cvars == <<cpc, cconfig, now, last_request_time, attempt, cattempts, crequests,
           cresult, ccalls>>
bvars == <<bpc, bformat, bcount, bitems, bidx, generated_count, bprocessed, bsaved,
           bmessage, bexit>>
evars == <<epc, ethreshold, epaper, ecalls, eresult>>
lvars == <<lpc, lcontent, lvalidation, lpost, ldraft>>
svars == <<spc, stype, sstatus, sposts, sresponse>>
tvars == <<tpc, tid, tstatus, tmarkdown, tposted, tran>>
pvars == <<ppc, pplatform, pcreds, pinit, ploops, pqueue, prows, pdrafts, pmoved>>
zvars == <<evars, lvars, svars, tvars, pvars>>
basevars == <<avars, vvars, dvars, rvars, fvars, cvars, bvars>>
xvars == <<rvars, fvars, cvars, bvars, zvars>>
vars == <<avars, vvars, dvars, xvars>>

\* -------------------------------------------------------------------------
\* Bounds
\* -------------------------------------------------------------------------
MaxStages == 3          \* longest configured stage list explored for analyze
MaxMediumStages == 1    \* longest configured stage list explored for analyze_for_medium

\* -------------------------------------------------------------------------
\* Generic helpers
\* -------------------------------------------------------------------------
Range(s) == {s[n] : n \in 1..Len(s)}

IsWhitespace(tok) == tok = " "

\* str.strip(): drop leading and trailing whitespace
RECURSIVE lstrip(_)
lstrip(s) == IF s # <<>> /\ IsWhitespace(Head(s)) THEN lstrip(Tail(s)) ELSE s

RECURSIVE rstrip(_)
rstrip(s) ==
    IF s # <<>> /\ IsWhitespace(s[Len(s)]) THEN rstrip(SubSeq(s, 1, Len(s) - 1)) ELSE s

strip(s) == rstrip(lstrip(s))

\* dict[key] = value
DictSet(d, key, value) ==
    [k \in (DOMAIN d) \cup {key} |-> IF k = key THEN value ELSE d[k]]

EmptyDict == [k \in {} |-> <<>>]

\* -------------------------------------------------------------------------
\* llm/prompts.py
\* -------------------------------------------------------------------------
\* The replacement fields of each template, in order of first appearance.
prompts ==
    [ fact_extraction             |-> <<"content">>,
      engineer_summary            |-> <<"content">>,
      impact_analysis             |-> <<"content">>,
      application_mapping         |-> <<"content">>,
      blog_synthesis              |-> <<"title", "url", "analyzed_content">>,
      linkedin_formatting         |-> <<"title", "url", "analyzed_content">>,
      credibility_check           |-> <<"generated_output">>,
      medium_synthesis            |-> <<"title", "url", "analyzed_content">>,
      methodology                 |-> <<"content">>,
      results                     |-> <<"content">>,
      diagram_architecture        |-> <<"content">>,
      diagram_flow                |-> <<"Process Type?", "content">>,
      diagram_comparison          |-> <<"content">>,
      github_eli5_what            |-> <<"title", "summary", "topics", "language">>,
      github_eli5_how             |-> <<"title", "summary", "language", "topics">>,
      github_eli5_why             |-> <<"title", "summary", "stars", "forks", "contributors">>,
      github_eli5_getting_started |-> <<"title", "url", "language">>,
      github_eli5_blog            |-> <<"title", "url", "stars", "forks", "contributors",
                                        "language", "topics", "license", "stars_per_day",
                                        "is_active", "summary", "analyzed_content">>,
      linkedin_engaging           |-> <<"title", "url", "analyzed_content">>,
      linkedin_validation         |-> <<"content">>,
      trend_discovery             |-> <<"current_date", "recent_content">> ]

\* template.format(**kwargs): the first field with no keyword argument is a KeyError
FirstMissing(fields, kwargs) ==
    LET missing == {n \in 1..Len(fields) : fields[n] \notin DOMAIN kwargs}
    IN  IF missing = {} THEN 0 ELSE CHOOSE n \in missing : \A m \in missing : n <= m

\* Result of a call: [raised |-> FALSE, value |-> v] or [raised |-> TRUE, msg |-> str(e)]
Raise(msg) == [raised |-> TRUE, msg |-> msg]
Return(v) == [raised |-> FALSE, value |-> v]

\* Variant: an unknown stage name falls back to an empty template instead of raising
get_prompt_default(stage, kwargs) ==
    IF stage \notin DOMAIN prompts
    THEN Return([template |-> stage, args |-> [f \in {} |-> <<>>]])
    ELSE LET template == prompts[stage]
             miss == FirstMissing(template, kwargs)
         IN  IF miss # 0
             THEN Raise(<<"'", template[miss], "'">>)
             ELSE Return([template |-> stage,
                          args |-> [f \in Range(template) |-> kwargs[f]]])

get_prompt(stage, kwargs) ==
    IF stage \notin DOMAIN prompts
    THEN Raise(<<"Unknown prompt stage: ", stage>>)
    ELSE LET template == prompts[stage]
             miss == FirstMissing(template, kwargs)
         IN  IF miss # 0
             THEN Raise(<<"'", template[miss], "'">>)
             ELSE Return([template |-> stage,
                          args |-> [f \in Range(template) |-> kwargs[f]]])

\* -------------------------------------------------------------------------
\* llm/analyzer.py: inputs
\* -------------------------------------------------------------------------
\* Stage names a configuration may list: raw-content stages, synthesis stages,
\* a template that takes other arguments, and a name with no template.
ConfigStageNames ==
    {"fact_extraction", "engineer_summary", "blog_synthesis", "linkedin_formatting",
     "medium_synthesis", "credibility_check", "no_such_stage"}

DefaultStages ==
    <<"fact_extraction", "engineer_summary", "impact_analysis", "application_mapping">>

Items ==
    { [id |-> "arxiv_1", title |-> "Paper A", url |-> "http://x/1", source |-> "arxiv",
       summary |-> "abstract"],
      [id |-> "gh_2", title |-> "Repo B", url |-> "http://x/2", source |-> "github",
       summary |-> ""] }

\* What client.generate can do: return a text (possibly padded or blank) or raise
GenOutcomes ==
    { Return(<<" ", "text", " ">>),
      Return(<<" ">>),
      Raise(<<"Failed after 3 attempts: ", "timeout">>) }

\* Distinct stage lists of length at most n
SeqsNoDup(S, n) ==
    UNION { {s \in [1..m -> S] : \A a, b \in 1..m : a # b => s[a] # s[b]} : m \in 0..n }

\* -------------------------------------------------------------------------
\* llm/analyzer.py: helpers
\* -------------------------------------------------------------------------
prepare_content(it) ==
    <<"Title: ", it.title, "Source: ", it.source, "URL: ", it.url>>
    \o (IF it.summary # "" THEN <<"Content:", it.summary>> ELSE <<>>)

\* key.replace('_', ' ').title()
Heading(key) ==
    CASE key = "fact_extraction"     -> "## Fact Extraction"
      [] key = "engineer_summary"    -> "## Engineer Summary"
      [] key = "impact_analysis"     -> "## Impact Analysis"
      [] key = "application_mapping" -> "## Application Mapping"

RECURSIVE format_parts(_, _)
format_parts(an, keys) ==
    IF keys = <<>> THEN <<>>
    ELSE LET key == Head(keys)
         IN  (IF key \in DOMAIN an /\ an[key] # <<>>
              THEN <<Heading(key)>> \o an[key] \o <<"">>
              ELSE <<>>)
             \o format_parts(an, Tail(keys))

format_analysis(an) == format_parts(an, DefaultStages)

NeedsFullAnalysis == {"blog_synthesis", "linkedin_formatting"}

\* The prompt _run_stage builds for a stage
stage_prompt(stage, content, previous_analysis) ==
    IF stage \in NeedsFullAnalysis
    THEN get_prompt(stage, [title |-> previous_analysis["title"],
                            url |-> previous_analysis["url"],
                            analyzed_content |-> format_analysis(previous_analysis)])
    ELSE get_prompt(stage, [content |-> content])

\* client.generate(user_prompt=prompt).strip() once the prompt p is built;
\* gen is what client.generate does if it is called
generate_stripped(p, gen) ==
    IF p.raised THEN p
    ELSE IF gen.raised THEN gen
    ELSE Return(strip(gen.value))

\* _run_stage: build the prompt, call the client, strip the response
run_stage(stage, content, previous_analysis, gen) ==
    generate_stripped(stage_prompt(stage, content, previous_analysis), gen)

\* History record of one step: whether its prompt could be built, and what
\* client.generate did if it was called
Attempt(name, p, gen) ==
    IF p.raised
    THEN [step |-> name, built |-> FALSE, prompt |-> <<>>, raised |-> FALSE,
          response |-> <<>>]
    ELSE [step |-> name, built |-> TRUE, prompt |-> p.value, raised |-> gen.raised,
          response |-> IF gen.raised THEN <<>> ELSE gen.value]

error_msg(e) == <<"Error: ">> \o e.msg

\* try-branch of the stage loop: store the text, append to completed_stages
record_success(an, stage, result) ==
    LET a1 == DictSet(an, stage, result)
    IN  DictSet(a1, "completed_stages", Append(a1["completed_stages"], stage))

\* Variant: the except-branch forgets to store the placeholder
record_failure_novalue(an, stage, e) ==
    DictSet(an, "failed_stages", Append(an["failed_stages"], stage))

\* except-branch of the stage loop: store the placeholder, append to failed_stages
record_failure(an, stage, e) ==
    LET a1 == DictSet(an, stage, error_msg(e))
    IN  DictSet(a1, "failed_stages", Append(a1["failed_stages"], stage))

\* Variant: the success flag is never cleared
update_success_never(an) == an

\* "Update success status" after the loop
update_success(an) ==
    IF an["failed_stages"] # <<>> THEN DictSet(an, "success", FALSE) ELSE an

\* -------------------------------------------------------------------------
\* ContentAnalyzer.analyze
\* -------------------------------------------------------------------------
analyze_begin ==
    /\ pc = "idle"
    /\ \E it \in Items :
        /\ item' = it
        /\ analysis' = [item_id |-> it.id, title |-> it.title, url |-> it.url,
                        source |-> it.source, success |-> TRUE,
                        completed_stages |-> <<>>, failed_stages |-> <<>>]
    /\ idx' = 1
    /\ pc' = "stages"
    /\ UNCHANGED <<stages, entry, diagrams, attempts, vvars, dvars, xvars>>

\* Variant: a failing stage ends the loop (the exception aborts the remaining stages)
analyze_stage_abort ==
    /\ pc = "stages"
    /\ idx <= Len(stages)
    /\ \E gen \in GenOutcomes :
        LET stage == stages[idx]
            content == prepare_content(item)
            r == run_stage(stage, content, analysis, gen)
        IN  /\ analysis' = IF r.raised
                           THEN record_failure(analysis, stage, r)
                           ELSE record_success(analysis, stage, r.value)
            /\ attempts' = Append(attempts,
                   Attempt(stage, stage_prompt(stage, content, analysis), gen))
            /\ idx' = IF r.raised THEN Len(stages) + 1 ELSE idx + 1
    /\ UNCHANGED <<stages, entry, pc, item, diagrams, vvars, dvars, xvars>>

\* One iteration of the stage loop: try _run_stage, record success or failure,
\* and go on to the next stage either way
analyze_stage ==
    /\ pc = "stages"
    /\ idx <= Len(stages)
    /\ \E gen \in GenOutcomes :
        LET stage == stages[idx]
            content == prepare_content(item)
            r == run_stage(stage, content, analysis, gen)
        IN  /\ analysis' = IF r.raised
                           THEN record_failure(analysis, stage, r)
                           ELSE record_success(analysis, stage, r.value)
            /\ attempts' = Append(attempts,
                   Attempt(stage, stage_prompt(stage, content, analysis), gen))
    /\ idx' = idx + 1
    /\ UNCHANGED <<stages, entry, pc, item, diagrams, vvars, dvars, xvars>>

analyze_return ==
    /\ pc = "stages"
    /\ idx > Len(stages)
    /\ analysis' = update_success(analysis)
    /\ pc' = IF entry = "analyze" THEN "returned" ELSE "methodology"
    /\ UNCHANGED <<stages, entry, item, idx, diagrams, attempts, vvars, dvars, xvars>>

\* -------------------------------------------------------------------------
\* ContentAnalyzer.analyze_for_medium: the extra calls after analyze
\* -------------------------------------------------------------------------
methodology_prompt == get_prompt("methodology", [content |-> prepare_content(item)])

results_prompt == get_prompt("results", [content |-> prepare_content(item)])

medium_prompt ==
    get_prompt("medium_synthesis", [title |-> item.title, url |-> item.url,
                                    analyzed_content |-> format_analysis(analysis)])

\* One section of the shared try block: on an exception the except clause logs
\* and the method returns what it has; otherwise the text is stored under key
medium_section(here, key, p, next) ==
    /\ pc = here
    /\ \E gen \in GenOutcomes :
        LET r == generate_stripped(p, gen)
        IN  /\ attempts' = Append(attempts, Attempt(key, p, gen))
            /\ IF r.raised
               THEN /\ pc' = "medium_returned"
                    /\ UNCHANGED analysis
               ELSE /\ pc' = next
                    /\ analysis' = DictSet(analysis, key, r.value)
    /\ UNCHANGED <<stages, entry, item, idx, diagrams, vvars, dvars, xvars>>

medium_methodology ==
    medium_section("methodology", "methodology", methodology_prompt, "results")

medium_results ==
    medium_section("results", "results", results_prompt, "medium_synthesis")

medium_synthesis ==
    medium_section("medium_synthesis", "medium_synthesis", medium_prompt,
                   "diagram_architecture")

\* _generate_diagrams: f"{content}\n\n{self._format_analysis(analysis)}"
full_context == prepare_content(item) \o <<"\n\n">> \o format_analysis(analysis)

\* What one diagram try/except leaves under its key
diagram_value(r) == IF r.raised THEN <<>> ELSE r.value

\* Variant: the three diagrams share one try block, so a failing diagram ends
\* _generate_diagrams with what it has
diagram_step_shared(here, key, template, next) ==
    /\ pc = here
    /\ \E gen \in GenOutcomes :
        LET p == get_prompt(template, [content |-> full_context])
            r == generate_stripped(p, gen)
            d == DictSet(diagrams, key, diagram_value(r))
            last == r.raised \/ next = "medium_returned"
        IN  /\ attempts' = Append(attempts, Attempt(template, p, gen))
            /\ diagrams' = d
            /\ analysis' = IF last THEN DictSet(analysis, "diagrams", d) ELSE analysis
            /\ pc' = IF last THEN "medium_returned" ELSE next
    /\ UNCHANGED <<stages, entry, item, idx, vvars, dvars, xvars>>

\* One try/except of _generate_diagrams
diagram_step(here, key, template, next) ==
    /\ pc = here
    /\ \E gen \in GenOutcomes :
        LET p == get_prompt(template, [content |-> full_context])
            r == generate_stripped(p, gen)
            d == DictSet(diagrams, key, diagram_value(r))
        IN  /\ attempts' = Append(attempts, Attempt(template, p, gen))
            /\ diagrams' = d
            /\ analysis' = IF next = "medium_returned"
                           THEN DictSet(analysis, "diagrams", d)
                           ELSE analysis
    /\ pc' = next
    /\ UNCHANGED <<stages, entry, item, idx, vvars, dvars, xvars>>

diagram_architecture ==
    diagram_step("diagram_architecture", "architecture", "diagram_architecture",
                 "diagram_flow")

diagram_flow ==
    diagram_step("diagram_flow", "flow", "diagram_flow", "diagram_comparison")

\* the last diagram; _generate_diagrams returns and analysis['diagrams'] is set
diagram_comparison ==
    diagram_step("diagram_comparison", "comparison", "diagram_comparison",
                 "medium_returned")

\* -------------------------------------------------------------------------
\* ContentAnalyzer.validate_linkedin_safety and _basic_validation
\* -------------------------------------------------------------------------
MaxResponseLen == 3     \* longest validation response explored, in tokens
MaxContentWords == 2    \* distinct leading words of the post content explored

WordLimit == 300
ApprovalScore == 70

\* Post content: a few leading words followed by filler ordinary words
ContentWords == {"Damn", "damned", "great", "[1]"}
ContentFiller == {0, 299}

Contents ==
    { [words |-> w, filler |-> f] :
        w \in UNION {[1..n -> ContentWords] : n \in 0..MaxContentWords},
        f \in ContentFiller }

\* str.lower() on a word
Lower(w) == CASE w = "Damn" -> "damn" [] w = "T" -> "t" [] OTHER -> w

\* config.get('profanity_list', ['damn', 'hell', 'crap'])
profanity_patterns == <<"damn", "hell", "crap">>

\* re.search(rf'\b{word}\b', content, re.IGNORECASE)
ContainsWord(content, word) ==
    \E n \in 1..Len(content.words) : Lower(content.words[n]) = word

\* re.search(r'\[\d+\]', content)
HasCitationMarker(content) == \E n \in 1..Len(content.words) : content.words[n] = "[1]"

\* len(content.split())
word_count(content) == Len(content.words) + content.filler

\* The for loop over profanity_patterns with its break: at most one issue
RECURSIVE profanity_issues(_, _)
profanity_issues(content, patterns) ==
    IF patterns = <<>> THEN <<>>
    ELSE IF ContainsWord(content, Head(patterns))
         THEN <<[category |-> "safety", severity |-> "critical",
                 issue |-> <<"Contains profanity: ", Head(patterns)>>,
                 suggestion |-> "Remove profane language"]>>
         ELSE profanity_issues(content, Tail(patterns))

\* Variant: the fallback result leaves out the summary
basic_validation_nosummary(content) ==
    LET prof == profanity_issues(content, profanity_patterns)
        long == IF word_count(content) > WordLimit
                THEN <<[category |-> "quality", severity |-> "medium",
                        issue |-> <<"Too long: ", word_count(content), " words">>,
                        suggestion |-> "Shorten to under 300 words"]>>
                ELSE <<>>
        cite == IF HasCitationMarker(content)
                THEN <<[category |-> "quality", severity |-> "low",
                        issue |-> <<"Contains citation markers">>,
                        suggestion |-> "Remove [1], [2] style citations"]>>
                ELSE <<>>
        issues == prof \o long \o cite
        score == 100 - 30 * Len(prof) - 10 * Len(long) - 5 * Len(cite)
        is_valid == score >= ApprovalScore
    IN  [is_valid |-> is_valid,
         validation_score |-> IF score > 0 THEN score ELSE 0,
         issues |-> issues,
         approved |-> is_valid]

basic_validation(content) ==
    LET prof == profanity_issues(content, profanity_patterns)
        long == IF word_count(content) > WordLimit
                THEN <<[category |-> "quality", severity |-> "medium",
                        issue |-> <<"Too long: ", word_count(content), " words">>,
                        suggestion |-> "Shorten to under 300 words"]>>
                ELSE <<>>
        cite == IF HasCitationMarker(content)
                THEN <<[category |-> "quality", severity |-> "low",
                        issue |-> <<"Contains citation markers">>,
                        suggestion |-> "Remove [1], [2] style citations"]>>
                ELSE <<>>
        issues == prof \o long \o cite
        score == 100 - 30 * Len(prof) - 10 * Len(long) - 5 * Len(cite)
        is_valid == score >= ApprovalScore
    IN  [is_valid |-> is_valid,
         validation_score |-> IF score > 0 THEN score ELSE 0,
         issues |-> issues,
         approved |-> is_valid,
         summary |-> <<"Basic validation: ", Len(issues), " issues found">>]

\* Tokens of a validation response: braces, free text, a member list holding all
\* five expected members, and a member list holding only "approved"
ResponseTokens == {"{", "}", "txt", "members5", "members1"}

Responses == UNION {[1..n -> ResponseTokens] : n \in 0..MaxResponseLen}

ValidationOutcomes ==
    {Return(r) : r \in Responses} \cup {Raise(<<"Failed after 3 attempts: ", "timeout">>)}

\* The dict a member list decodes to
Members(tok) ==
    CASE tok = "members5" -> [is_valid |-> TRUE, validation_score |-> 85,
                              issues |-> <<>>, approved |-> TRUE,
                              summary |-> <<"looks fine">>]
      [] tok = "members1" -> [approved |-> TRUE]

\* A JSON object text: braces around at most one member list
IsJsonObject(str) ==
    /\ Len(str) \in {2, 3}
    /\ str[1] = "{"
    /\ str[Len(str)] = "}"
    /\ Len(str) = 3 => str[2] \in {"members5", "members1"}

\* json.loads on a text: the decoded dict, or JSONDecodeError
json_loads(str) ==
    IF IsJsonObject(str)
    THEN Return(IF Len(str) = 3 THEN Members(str[2]) ELSE EmptyDict)
    ELSE Raise(<<"Expecting value">>)

\* str.find(tok): 0-based index of the first occurrence, -1 if none
find(str, tok) ==
    LET at == {n \in 1..Len(str) : str[n] = tok}
    IN  IF at = {} THEN -1 ELSE (CHOOSE n \in at : \A m \in at : n <= m) - 1

\* str.rfind(tok): 0-based index of the last occurrence, -1 if none
rfind(str, tok) ==
    LET at == {n \in 1..Len(str) : str[n] = tok}
    IN  IF at = {} THEN -1 ELSE (CHOOSE n \in at : \A m \in at : n >= m) - 1

\* The body of validate_linkedin_safety for one outcome of client.generate
validation_result(content, gen) ==
    LET p == get_prompt("linkedin_validation", [content |-> content])
    IN  IF p.raised \/ gen.raised THEN basic_validation(content)
        ELSE LET response == gen.value
                 json_start == find(response, "{")
                 json_end == rfind(response, "}") + 1
             IN  IF json_start >= 0 /\ json_end > json_start
                 THEN LET parsed == json_loads(SubSeq(response, json_start + 1, json_end))
                      IN  IF parsed.raised THEN basic_validation(content)
                          ELSE parsed.value
                 ELSE basic_validation(content)

validate_linkedin_safety ==
    /\ vpc = "idle"
    /\ \E content \in Contents, gen \in ValidationOutcomes :
        /\ vcontent' = content
        /\ vgen' = gen
        /\ vresult' = validation_result(content, gen)
    /\ vpc' = "validated"
    /\ UNCHANGED <<avars, dvars, xvars>>

\* -------------------------------------------------------------------------
\* filters/dedup.py: Deduplicator
\* -------------------------------------------------------------------------
MaxItems == 3           \* longest item list explored

\* Titles are sequences of characters
Titles ==
    { <<"t", "i", "d", "e">>, <<"d", "i", "e", "t">>, <<"T", "i", "d", "e", " ">>,
      <<"a", "b">>, <<"a", "c">>, <<"a", "d", "e">>, <<>> }

Urls == {"http://x/1", "http://x/2"}

DedupItems == {[title |-> t, url |-> u] : t \in Titles, u \in Urls}

\* title_similarity_threshold as a fraction: 0.5 and the default 0.85
Thresholds == {[num |-> 1, den |-> 2], [num |-> 17, den |-> 20]}

DedupConfigs ==
    {[similarity_threshold |-> th, use_url_hash |-> h] : th \in Thresholds, h \in BOOLEAN}

Min(x, y) == IF x <= y THEN x ELSE y

\* difflib.SequenceMatcher.find_longest_match over a[alo:ahi], b[blo:bhi] with
\* no junk: the longest matching block, of those the one starting earliest in a,
\* of those the one starting earliest in b; <<alo, blo, 0>> when nothing matches.
\* Indices are 0-based as in the library.
find_longest_match(a, b, alo, ahi, blo, bhi) ==
    LET blocks == { c \in (alo..(ahi - 1)) \X (blo..(bhi - 1)) \X (1..Min(ahi - alo, bhi - blo)) :
                      /\ c[1] + c[3] <= ahi
                      /\ c[2] + c[3] <= bhi
                      /\ \A d \in 0..(c[3] - 1) : a[c[1] + d + 1] = b[c[2] + d + 1] }
        Better(c, e) ==
            \/ c[3] > e[3]
            \/ c[3] = e[3] /\ c[1] < e[1]
            \/ c[3] = e[3] /\ c[1] = e[1] /\ c[2] <= e[2]
    IN  IF blocks = {} THEN <<alo, blo, 0>>
        ELSE CHOOSE c \in blocks : \A e \in blocks : Better(c, e)

\* Sum of the sizes of SequenceMatcher.get_matching_blocks: the longest block,
\* then the same to its left and to its right
RECURSIVE matching_size(_, _, _, _, _, _)
matching_size(a, b, alo, ahi, blo, bhi) ==
    LET x == find_longest_match(a, b, alo, ahi, blo, bhi)
        i == x[1]
        j == x[2]
        k == x[3]
    IN  IF k = 0 THEN 0
        ELSE k
             + (IF alo < i /\ blo < j THEN matching_size(a, b, alo, i, blo, j) ELSE 0)
             + (IF i + k < ahi /\ j + k < bhi
                THEN matching_size(a, b, i + k, ahi, j + k, bhi) ELSE 0)

\* SequenceMatcher(None, str1, str2).ratio() as a fraction: 2.0 * matches / length,
\* and 1.0 when both strings are empty
calculate_similarity(str1, str2) ==
    LET length == Len(str1) + Len(str2)
    IN  IF length = 0 THEN [num |-> 1, den |-> 1]
        ELSE [num |-> 2 * matching_size(str1, str2, 0, Len(str1), 0, Len(str2)),
              den |-> length]

\* Comparison of fractions with positive denominators
FracGeq(x, y) == x.num * y.den >= y.num * x.den
FracGt(x, y) == x.num * y.den > y.num * x.den

\* Variant: the comparison with the threshold is strict
is_similar_to_existing_strict(title, existing_titles, threshold) ==
    \E n \in 1..Len(existing_titles) :
        FracGt(calculate_similarity(title, existing_titles[n]), threshold)

\* Variant: only the most recently kept title is compared
is_similar_to_existing_last(title, existing_titles, threshold) ==
    /\ existing_titles # <<>>
    /\ FracGeq(calculate_similarity(title, existing_titles[Len(existing_titles)]),
               threshold)

is_similar_to_existing(title, existing_titles, threshold) ==
    \E n \in 1..Len(existing_titles) :
        FracGeq(calculate_similarity(title, existing_titles[n]), threshold)

\* hashlib.md5(url.encode()).hexdigest(): equal URLs give equal digests, and the
\* URLs of the model have distinct digests
hash_url(url) == <<"md5", url>>

\* item.get('title', '').lower().strip()
lower(str) == [n \in 1..Len(str) |-> Lower(str[n])]
normalize_title(it) == strip(lower(it.title))

\* Variant: kept items are put in front of the result
keep_item_front(unique_items, it) == <<it>> \o unique_items

\* unique_items.append(item)
keep_item(unique_items, it) == Append(unique_items, it)

\* The for loop of deduplicate over the remaining items
RECURSIVE dedup_loop(_, _, _, _, _)
dedup_loop(items, cfg, unique_items, seen_urls, seen_titles) ==
    IF items = <<>> THEN unique_items
    ELSE LET it == Head(items)
             url_hash == hash_url(it.url)
             title == normalize_title(it)
         IN  IF cfg.use_url_hash /\ url_hash \in seen_urls
             THEN dedup_loop(Tail(items), cfg, unique_items, seen_urls, seen_titles)
             ELSE LET urls == IF cfg.use_url_hash THEN seen_urls \cup {url_hash}
                              ELSE seen_urls
                  IN  IF is_similar_to_existing(title, seen_titles, cfg.similarity_threshold)
                      THEN dedup_loop(Tail(items), cfg, unique_items, urls, seen_titles)
                      ELSE dedup_loop(Tail(items), cfg, keep_item(unique_items, it),
                                      urls, Append(seen_titles, title))

deduplicate(items, cfg) ==
    IF items = <<>> THEN <<>> ELSE dedup_loop(items, cfg, <<>>, {}, <<>>)

\* deduplicate(items) on the configured Deduplicator
dedup_first ==
    /\ dpc = "idle"
    /\ dout' = deduplicate(ditems, dconfig)
    /\ dpc' = "once"
    /\ UNCHANGED <<avars, vvars, xvars, dconfig, ditems, dout2>>

\* deduplicate applied to its own output
dedup_again ==
    /\ dpc = "once"
    /\ dout2' = deduplicate(dout, dconfig)
    /\ dpc' = "twice"
    /\ UNCHANGED <<avars, vvars, xvars, dconfig, ditems, dout>>

\* -------------------------------------------------------------------------
\* Item fields shared by the ranker and the relevance filter
\* -------------------------------------------------------------------------
\* A dict entry of an item: absent, present with None, or present with a number
Absent == [k |-> "absent"]
None == [k |-> "none"]
Num(n) == [k |-> "num", v |-> n]

\* item.get(key, default) for a numeric field: the default only when absent;
\* a value of None is handed on as it is
GetNum(field, default) == IF field.k = "absent" THEN Num(default) ELSE field

\* 'published': absent or empty, a string no format parses, a value that is no
\* string (published.replace raises AttributeError), or a date string
\* written in one of the surface forms, lying age days before now
NoDate == [k |-> "absent"]
Garbage == [k |-> "garbage"]
NotAString == [k |-> "number"]
Date(form, age) == [k |-> "date", form |-> form, age |-> age]

\* The formats tried in order, each with the surface forms strptime accepts
\* after published.replace('GMT', '+0000')
DateFormats ==
    << {"iso_offset", "iso_z"},     \* '%Y-%m-%dT%H:%M:%S%z'
       {"iso_z"},                   \* '%Y-%m-%dT%H:%M:%SZ'
       {"rfc822_utc"},              \* '%a, %d %b %Y %H:%M:%S %Z' ("GMT" was replaced)
       {"ymd"} >>                   \* '%Y-%m-%d'

\* The for loop over the formats: age in days of the first format that parses,
\* or no parse at all
ParsedAge(published) ==
    IF published.k = "date" /\ \E n \in 1..Len(DateFormats) : published.form \in DateFormats[n]
    THEN Return(published.age)
    ELSE Raise(<<"ValueError">>)

\* -------------------------------------------------------------------------
\* filters/ranker.py: ContentRanker
\* -------------------------------------------------------------------------
MaxRankItems == 3       \* longest item list explored for rank

\* Sub-scores are held in hundredths, weights in tenths, the weighted sum in
\* thousandths and the rounded score in hundredths.
weights == [recency |-> 3, source_priority |-> 3, keyword_match |-> 2, engagement |-> 2]

TopScore == 1000        \* 10.0

RankItem(title, source, priority, kw, points, stars, category, published) ==
    [title |-> title, source |-> source, source_priority |-> priority,
     keyword_score |-> kw, points |-> points, stars |-> stars,
     category |-> category, published |-> published]

\* GitHub items that differ in stars only (and in the title that names them)
StarItems ==
    { RankItem("repo", "github", "high", Num(1), Absent, Num(n), "", NoDate) :
        n \in {0, 1, 5, 996, 1001} }

RankItems ==
    StarItems \cup
    { RankItem("repo", "github", "high", Num(1), Absent, None, "", NoDate),
      RankItem("story", "hackernews", "LOW", Num(1), Num(100), Absent, "",
               Date("iso_z", 2)),
      RankItem("paper", "arxiv", "medium", Num(5), Absent, Absent, "cs.AI",
               Date("ymd", 20)),
      RankItem("paper2", "arxiv", "unknown", Absent, Absent, Absent, "cs.LG",
               Date("rfc822_gmt", 1)),
      RankItem("post", "blog_openai", "high", None, Absent, Absent, "", Garbage),
      RankItem("post2", "blog_openai", "medium", Num(7), Absent, Absent, "",
               Date("iso_offset", -1)) }

RMin(x, y) == IF x <= y THEN x ELSE y
RMax(x, y) == IF x >= y THEN x ELSE y

\* _recency_score in hundredths: 5.0 without a parsed date, else
\* min(max(0, 10 - age_days), 10.0)
recency_score(it) ==
    LET age == ParsedAge(it.published)
    IN  IF age.raised THEN 500
        ELSE RMin(RMax(0, 10 - age.value) * 100, TopScore)

\* str.lower() on a priority name
LowerPriority(p) == IF p = "LOW" THEN "low" ELSE p

\* _source_priority_score in hundredths
source_priority_score(it) ==
    LET priority == LowerPriority(it.source_priority)
    IN  CASE priority = "high" -> 1000
          [] priority = "medium" -> 600
          [] priority = "low" -> 300
          [] OTHER -> 500

\* _keyword_score in hundredths: min(raw_score * 2, 10.0); None * 2 is a TypeError
keyword_score(it) ==
    LET raw_score == GetNum(it.keyword_score, 0)
    IN  IF raw_score.k = "none" THEN Raise(<<"TypeError">>)
        ELSE Return(RMin(raw_score.v * 2 * 100, TopScore))

\* Variant: the star count is normalised with integer division
engagement_score_floor(it) ==
    IF it.source = "hackernews"
    THEN LET points == GetNum(it.points, 0)
         IN  IF points.k = "none" THEN Raise(<<"TypeError">>)
             ELSE Return(RMin(points.v * 2, TopScore))
    ELSE IF it.source = "github"
    THEN LET stars == GetNum(it.stars, 0)
         IN  IF stars.k = "none" THEN Raise(<<"TypeError">>)
             ELSE Return(RMin((stars.v \div 100) * 100, TopScore))
    ELSE IF it.source = "arxiv"
    THEN Return(IF it.category = "cs.AI" THEN 800 ELSE 600)
    ELSE Return(500)

\* _engagement_score in hundredths: points / 50, stars / 100, both capped at
\* 10.0; None / 50 is a TypeError
engagement_score(it) ==
    IF it.source = "hackernews"
    THEN LET points == GetNum(it.points, 0)
         IN  IF points.k = "none" THEN Raise(<<"TypeError">>)
             ELSE Return(RMin(points.v * 2, TopScore))
    ELSE IF it.source = "github"
    THEN LET stars == GetNum(it.stars, 0)
         IN  IF stars.k = "none" THEN Raise(<<"TypeError">>)
             ELSE Return(RMin(stars.v, TopScore))
    ELSE IF it.source = "arxiv"
    THEN Return(IF it.category = "cs.AI" THEN 800 ELSE 600)
    ELSE Return(500)

\* round(total_score, 2): thousandths to hundredths, to nearest, ties to even
round2(total) ==
    LET q == total \div 10
        r == total % 10
    IN  IF r > 5 \/ (r = 5 /\ q % 2 = 1) THEN q + 1 ELSE q

\* _calculate_score: the rounded weighted sum, or the TypeError of a sub-score
calculate_score(it) ==
    LET kw == keyword_score(it)
        eng == engagement_score(it)
    IN  IF kw.raised THEN kw
        ELSE IF eng.raised THEN eng
        ELSE Return(round2(recency_score(it) * weights.recency
                           + source_priority_score(it) * weights.source_priority
                           + kw.value * weights.keyword_match
                           + eng.value * weights.engagement))

\* Insertion of e into a list already in descending order of score: behind the
\* elements whose score is greater, and behind the equal ones too when stable
RECURSIVE insert_sorted(_, _, _)
insert_sorted(sorted, e, stable) ==
    IF sorted = <<>> THEN <<e>>
    ELSE IF Head(sorted).score > e.score \/ (stable /\ Head(sorted).score = e.score)
         THEN <<Head(sorted)>> \o insert_sorted(Tail(sorted), e, stable)
         ELSE <<e>> \o sorted

RECURSIVE sort_by_score(_, _)
sort_by_score(scored, stable) ==
    IF scored = <<>> THEN <<>>
    ELSE insert_sorted(sort_by_score(SubSeq(scored, 1, Len(scored) - 1), stable),
                       scored[Len(scored)], stable)

\* Variant: sort ascending, then reverse the list (equal scores come out in
\* reverse input order)
sorted_reverse_flipped(scored) == sort_by_score(scored, FALSE)

\* sorted(items, key=lambda x: x['score'], reverse=True): descending, and
\* stable, so equal scores keep their input order
sorted_reverse(scored) == sort_by_score(scored, TRUE)

\* rank: score every item, then sort; the first item whose score raises ends
\* the call.  pos is the input position of an element, kept to tell equal
\* items apart.
rank_result(items) ==
    LET scores == [n \in 1..Len(items) |-> calculate_score(items[n])]
        bad == {n \in 1..Len(items) : scores[n].raised}
    IN  IF bad # {}
        THEN scores[CHOOSE n \in bad : \A m \in bad : n <= m]
        ELSE Return(sorted_reverse(
                 [n \in 1..Len(items) |->
                     [item |-> items[n], score |-> scores[n].value, pos |-> n]]))

rank ==
    /\ rpc = "idle"
    /\ rresult' = rank_result(ritems)
    /\ rpc' = "ranked"
    /\ UNCHANGED <<avars, vvars, dvars, zvars, fvars, cvars, bvars, ritems>>

\* -------------------------------------------------------------------------
\* filters/relevance.py: RelevanceFilter
\* -------------------------------------------------------------------------
MaxFilterItems == 2     \* longest item list explored for filter

FilterConfig(age, high, medium, exclude, threshold) ==
    [max_age_days |-> age, high_priority |-> high, medium_priority |-> medium,
     exclude_keywords |-> exclude, min_engagement_threshold |-> threshold]

\* Configurations as given; 7 and 100 are the defaults of __init__
FilterConfigs ==
    { FilterConfig(7, << <<"a", "i">> >>, << <<"m", "l">> >>, << <<"T", "v">> >>, 100),
      FilterConfig(0, << <<"a", "i">> >>, << <<"m", "l">> >>, << <<"T", "v">> >>, 100),
      FilterConfig(7, <<>>, <<>>, <<>>, 100),
      FilterConfig(7, <<>>, << <<"m", "l">>, <<"a">> >>, << <<"t", "v">> >>, 150),
      FilterConfig(7, << <<"a", "i">> >>, <<>>, <<>>, 0) }

FilterItem(title, summary, published, engagement, points, stars) ==
    [title |-> title, summary |-> summary, published |-> published,
     engagement_score |-> engagement, points |-> points, stars |-> stars,
     keyword_score |-> Absent]

FilterItems ==
    { FilterItem(<<"a", "i">>, <<>>, Date("iso_z", 1), Absent, Absent, Absent),
      FilterItem(<<"m", "l">>, <<"a">>, Date("ymd", 30), Absent, Absent, Absent),
      FilterItem(<<"T", "v">>, <<"a", "i">>, Date("iso_z", 1), Absent, Num(500), Absent),
      FilterItem(<<"a", "i", " ", "T", "v">>, <<>>, Garbage, Absent, Absent, Absent),
      FilterItem(<<"x">>, <<>>, Garbage, Absent, Num(100), Absent),
      FilterItem(<<"x">>, <<>>, NoDate, Num(50), Num(150), Absent),
      FilterItem(<<"x">>, <<>>, Date("rfc822_gmt", 30), Num(0), Absent, Num(150)),
      FilterItem(<<"x">>, <<>>, NoDate, Absent, None, Absent),
      FilterItem(<<"x">>, <<>>, NotAString, Absent, Num(99), Absent),
      FilterItem(<<"a", "i">>, <<>>, NoDate, None, Absent, Absent),
      FilterItem(<<"x">>, <<>>, Date("iso_offset", 8), Absent, Num(500), Absent),
      FilterItem(<<"x">>, <<>>, Date("rfc822_utc", 7), Absent, Absent, Num(100)) }

\* __init__: the keyword lists are held lower-cased
lower_all(keywords) == [n \in 1..Len(keywords) |-> lower(keywords[n])]

\* keyword in text
Contains(text, keyword) ==
    \E i \in 1..(Len(text) + 1) :
        /\ i + Len(keyword) - 1 <= Len(text)
        /\ SubSeq(text, i, i + Len(keyword) - 1) = keyword

\* f"{item.get('title', '')} {item.get('summary', '')}"
title_summary(it) == it.title \o <<" ">> \o it.summary

\* Variant: a date no format parses counts as too old
is_recent_closed(config, it) ==
    IF it.published = NoDate THEN TRUE
    ELSE LET age == ParsedAge(it.published)
         IN  IF age.raised THEN FALSE
             ELSE age.value <= config.max_age_days

\* _is_recent: True without a date, when no format parses and on any other
\* exception; else age.days <= max_age_days
is_recent(config, it) ==
    IF it.published = NoDate THEN TRUE
    ELSE LET age == ParsedAge(it.published)
         IN  IF age.raised THEN TRUE
             ELSE age.value <= config.max_age_days

\* Variant: the text is compared as written, without lower()
has_excluded_keywords_cased(config, it) ==
    LET text == title_summary(it)
        exclude == lower_all(config.exclude_keywords)
    IN  \E n \in 1..Len(exclude) : Contains(text, exclude[n])

\* _has_excluded_keywords
has_excluded_keywords(config, it) ==
    LET text == lower(title_summary(it))
        exclude == lower_all(config.exclude_keywords)
    IN  \E n \in 1..Len(exclude) : Contains(text, exclude[n])

\* A high or medium priority keyword occurs in the lower-cased text
has_keyword_match(config, it) ==
    LET text == lower(title_summary(it))
        high == lower_all(config.high_priority)
        medium == lower_all(config.medium_priority)
    IN  \/ \E n \in 1..Len(high) : Contains(text, high[n])
        \/ \E n \in 1..Len(medium) : Contains(text, medium[n])

engagement_keys == <<"engagement_score", "points", "stars">>

\* next((item.get(key, 0) for key in engagement_keys if item.get(key, 0) > 0), 0):
\* the keys are tried in order from the n-th on, None > 0 is a TypeError
RECURSIVE first_positive(_, _)
first_positive(it, n) ==
    IF n > Len(engagement_keys) THEN Return(0)
    ELSE LET value == GetNum(it[engagement_keys[n]], 0)
         IN  IF value.k = "none" THEN Raise(<<"TypeError">>)
             ELSE IF value.v > 0 THEN Return(value.v)
             ELSE first_positive(it, n + 1)

\* Variant: the signal has to exceed the threshold
meets_threshold_strict(engagement, config) ==
    engagement > config.min_engagement_threshold

\* engagement_score >= self.min_engagement_threshold
meets_threshold(engagement, config) ==
    engagement >= config.min_engagement_threshold

\* _has_relevant_keywords
has_relevant_keywords(config, it) ==
    IF config.high_priority = <<>> /\ config.medium_priority = <<>> THEN Return(TRUE)
    ELSE IF has_keyword_match(config, it) THEN Return(TRUE)
    ELSE LET engagement == first_positive(it, 1)
         IN  IF engagement.raised THEN engagement
             ELSE Return(meets_threshold(engagement.value, config))

\* _calculate_keyword_score: 2.0 for each high and 1.0 for each medium keyword
\* found in the text
calculate_keyword_score(config, it) ==
    LET text == lower(title_summary(it))
        high == lower_all(config.high_priority)
        medium == lower_all(config.medium_priority)
    IN  2 * Cardinality({n \in 1..Len(high) : Contains(text, high[n])})
        + Cardinality({n \in 1..Len(medium) : Contains(text, medium[n])})

\* The for loop of filter from item n on, with the items accepted so far.
\* pos is the input position of an accepted item.
RECURSIVE filter_loop(_, _, _, _)
filter_loop(config, items, n, filtered) ==
    IF n > Len(items) THEN Return(filtered)
    ELSE IF ~is_recent(config, items[n]) THEN filter_loop(config, items, n + 1, filtered)
    ELSE IF has_excluded_keywords(config, items[n])
         THEN filter_loop(config, items, n + 1, filtered)
    ELSE LET relevant == has_relevant_keywords(config, items[n])
         IN  IF relevant.raised THEN relevant
             ELSE IF ~relevant.value THEN filter_loop(config, items, n + 1, filtered)
             ELSE filter_loop(config, items, n + 1,
                      Append(filtered,
                          [item |-> [items[n] EXCEPT !.keyword_score =
                                        Num(calculate_keyword_score(config, items[n]))],
                           pos |-> n]))

filter ==
    /\ fpc = "idle"
    /\ fresult' = filter_loop(fconfig, fitems, 1, <<>>)
    /\ fpc' = "filtered"
    /\ UNCHANGED <<avars, vvars, dvars, zvars, rvars, cvars, bvars, fconfig, fitems>>

\* -------------------------------------------------------------------------
\* llm/client.py: PerplexityClient
\* -------------------------------------------------------------------------
MaxRetries == 3         \* largest max_retries explored (3 is the default)
MaxCalls == 2           \* generate calls per client
MaxElapsed == 8         \* seconds of clock explored after construction
StartTime == 60         \* time.time() at construction: far from 0

Minute == 60

\* requests_per_minute: disabled, the default 20, and two more whose interval
\* is a whole number of seconds
RequestRates == {0, 20, 30, 60}

ClientConfigs ==
    {[max_retries |-> m, requests_per_minute |-> r] : m \in 0..MaxRetries, r \in RequestRates}

\* What one chat.completions.create call, with the two lines after it, does:
\* a response with text, a response whose content is None (len(None) raises
\* TypeError), a transient API failure (429, 5xx, timeout) or a non-transient
\* one (401, 400)
AttemptOutcomes == {"text", "no_content", "transient", "permanent"}

\* Seconds a create call takes
Durations == {0, 1}

\* generate has not ended / ended by falling out of the loop (None)
Pending == [kind |-> "pending"]
NoResult == [kind |-> "none"]
Text == [kind |-> "text"]
Failed(n, e) == [kind |-> "exception", msg |-> <<"Failed after", n, "attempts:", e>>]

\* _enforce_rate_limit: the time at which it returns
enforce_rate_limit(config, t, last) ==
    IF config.requests_per_minute <= 0 THEN t
    ELSE LET min_interval == Minute \div config.requests_per_minute
             elapsed == t - last
         IN  IF elapsed < min_interval THEN t + (min_interval - elapsed) ELSE t

\* Start of generate: the rate limit once, then the first pass of the loop,
\* which is over at once when range(max_retries) is empty
generate_begin ==
    /\ cpc = "idle"
    /\ ccalls < MaxCalls
    /\ LET t == enforce_rate_limit(cconfig, now, last_request_time)
       IN  /\ t <= StartTime + MaxElapsed
           /\ now' = t
           /\ last_request_time' = IF cconfig.requests_per_minute <= 0
                                   THEN last_request_time ELSE t
    /\ ccalls' = ccalls + 1
    /\ attempt' = 0
    /\ cattempts' = <<>>
    /\ IF cconfig.max_retries <= 0
       THEN cpc' = "idle" /\ cresult' = NoResult
       ELSE cpc' = "calling" /\ cresult' = Pending
    /\ UNCHANGED <<avars, vvars, dvars, zvars, rvars, fvars, bvars, cconfig, crequests>>

\* Variant: only a transient failure is followed by another attempt
retries_transient(outcome, n, max_retries) ==
    outcome = "transient" /\ n < max_retries - 1

\* except Exception: ... if attempt < self.max_retries - 1
retries(outcome, n, max_retries) == n < max_retries - 1

\* One pass of the loop: the request, then return, or sleep and go on, or raise
generate_attempt ==
    /\ cpc = "calling"
    /\ \E outcome \in AttemptOutcomes, d \in Durations :
          LET after == now + d
              wait_time == 2 ^ attempt
          IN  /\ crequests' = Append(crequests, now)
              /\ cattempts' = Append(cattempts, [outcome |-> outcome, start |-> now])
              /\ IF outcome = "text"
                 THEN /\ after <= StartTime + MaxElapsed
                      /\ now' = after
                      /\ cresult' = Text
                      /\ cpc' = "idle"
                      /\ UNCHANGED attempt
                 ELSE IF retries(outcome, attempt, cconfig.max_retries)
                 THEN /\ after + wait_time <= StartTime + MaxElapsed
                      /\ now' = after + wait_time
                      /\ attempt' = attempt + 1
                      /\ UNCHANGED <<cresult, cpc>>
                 ELSE /\ after <= StartTime + MaxElapsed
                      /\ now' = after
                      /\ cresult' = Failed(cconfig.max_retries, outcome)
                      /\ cpc' = "idle"
                      /\ UNCHANGED attempt
    /\ UNCHANGED <<avars, vvars, dvars, zvars, rvars, fvars, bvars, cconfig, last_request_time, ccalls>>

\* Time passing between two generate calls
client_wait ==
    /\ cpc = "idle"
    /\ ccalls < MaxCalls
    /\ now < StartTime + MaxElapsed
    /\ now' = now + 1
    /\ UNCHANGED <<avars, vvars, dvars, zvars, rvars, fvars, bvars, cpc, cconfig, last_request_time,
                   attempt, cattempts, crequests, cresult, ccalls>>

\* -------------------------------------------------------------------------
\* main.py: the generate command
\* -------------------------------------------------------------------------
MaxBatchItems == 2      \* most items of one generate run explored

Formats == {"blog", "linkedin", "medium", "both", "all"}

\* What matters of an item in the loop: whether it has the keys 'title' and
\* 'id', whether the analysis or the LinkedIn formatter raises for it, and
\* whether its LinkedIn post passes validate_linkedin_content
BatchItems ==
    [has_title : BOOLEAN, has_id : BOOLEAN, fails : {"no", "analysis", "linkedin"},
     linkedin_valid : BOOLEAN]

NoMessage == [printed |-> FALSE]
Message(generated, count) == [printed |-> TRUE, generated |-> generated, count |-> count]

wants_blog(format) == format \in {"blog", "both", "all"}
wants_linkedin(format) == format \in {"linkedin", "both", "all"}
wants_medium(format) == format \in {"medium", "all"}

\* The body of the try block for one item: the drafts saved before it ends,
\* and whether it ends by an exception
try_body(format, it, n) ==
    IF it.fails = "analysis" THEN [saved |-> {}, raised |-> TRUE]
    ELSE IF wants_blog(format) /\ ~it.has_id THEN [saved |-> {}, raised |-> TRUE]
    ELSE LET blog == IF wants_blog(format) THEN {<<n, "blog">>} ELSE {}
         IN  IF wants_linkedin(format) /\ it.fails = "linkedin"
             THEN [saved |-> blog, raised |-> TRUE]
             ELSE IF wants_linkedin(format) /\ it.linkedin_valid /\ ~it.has_id
             THEN [saved |-> blog, raised |-> TRUE]
             ELSE LET linkedin == IF wants_linkedin(format) /\ it.linkedin_valid
                                  THEN {<<n, "linkedin">>} ELSE {}
                  IN  IF wants_medium(format) /\ ~it.has_id
                      THEN [saved |-> blog \cup linkedin, raised |-> TRUE]
                      ELSE [saved |-> blog \cup linkedin \cup
                                      (IF wants_medium(format) THEN {<<n, "medium">>} ELSE {}),
                            raised |-> FALSE]

\* One pass of the for loop.  item['title'] is read by the progress line
\* before the try and by the error log inside the except handler: without the
\* key the KeyError leaves the loop and the command, and the uncaught
\* exception ends the process with status 1.
generate_item ==
    /\ bpc = "loop"
    /\ bidx <= Len(bitems)
    /\ IF ~bitems[bidx].has_title
       THEN /\ bpc' = "aborted"
            /\ bexit' = 1
            /\ UNCHANGED <<bidx, generated_count, bprocessed, bsaved>>
       ELSE LET body == try_body(bformat, bitems[bidx], bidx)
            IN  /\ bprocessed' = bprocessed \cup {bidx}
                /\ bsaved' = bsaved \cup body.saved
                /\ generated_count' = IF body.raised THEN generated_count
                                      ELSE generated_count + 1
                /\ bidx' = bidx + 1
                /\ UNCHANGED <<bpc, bexit>>
    /\ UNCHANGED <<avars, vvars, dvars, zvars, rvars, fvars, cvars, bformat, bcount, bitems, bmessage>>

\* After the loop: the final message, and the function returns; nothing
\* looks at generated_count, so the process ends with status 0
generate_finish ==
    /\ bpc = "loop"
    /\ bidx > Len(bitems)
    /\ bmessage' = Message(generated_count, bcount)
    /\ bpc' = "done"
    /\ bexit' = 0
    /\ UNCHANGED <<avars, vvars, dvars, zvars, rvars, fvars, cvars, bformat, bcount, bitems, bidx,
                   generated_count, bprocessed, bsaved>>

\* -------------------------------------------------------------------------
\* llm/arxiv_enhancer.py: ArxivEnhancer
\* -------------------------------------------------------------------------
\* Scores and thresholds are held in tenths: 50 is 5.0
FallbackScore == 50
TopRelevancy == 100

\* arxiv_relevancy_threshold: the default 6.0, 7.5 as in the tests, and 5.0
Thresholds10 == {50, 60, 75}

\* paper['summary']: a string, absent, or present with value None
Papers == {[summary |-> k] : k \in {"text", "absent", "none"}}

\* A generate call raises or returns a response.  For the relevancy call the
\* response has a "Score:" line with a number (given in tenths, possibly out
\* of the range 0-10), one that float() rejects, or none.
Raises == [raises |-> TRUE]
Response(score) == [raises |-> FALSE, score |-> score]
NoScore == [k |-> "absent"]
BadScore == [k |-> "invalid"]
Score(n) == [k |-> "num", v |-> n]
CallOutcomes == {Raises} \cup {Response(sc) : sc \in {NoScore, BadScore, Score(0), Score(50),
                                                     Score(70), Score(120)}}

\* paper.get('summary', '')[:500]: None[:500] is a TypeError
summary_prefix(paper) ==
    IF paper.summary = "none" THEN Raise(<<"TypeError">>)
    ELSE Return("abstract")

\* _generate_engaging_summary: the fallback is computed inside the except
\* handler, so its TypeError leaves the function
generate_engaging_summary(paper, call) ==
    IF call.raises THEN summary_prefix(paper) ELSE Return("summary")

\* _generate_verdict
generate_verdict(call) == IF call.raises THEN "fallback_verdict" ELSE "verdict"

\* _check_relevancy: the clamped score of the response, 5.0 when the response
\* has no usable score, and 5.0 when the call raises
check_relevancy(call) ==
    IF call.raises THEN [score |-> FallbackScore, reason |-> "Relevancy check failed"]
    ELSE IF call.score.k = "num"
         THEN [score |-> RMax(0, RMin(TopRelevancy, call.score.v)), reason |-> "parsed"]
         ELSE [score |-> FallbackScore, reason |-> "parsed"]

Enhancement(flag, summary, verdict, score, reason) ==
    [flag |-> flag,
     data |-> [enhanced_summary |-> summary, verdict |-> verdict, relevancy_score |-> score,
               relevancy_reason |-> reason, is_relevant |-> flag]]

\* enhance_arxiv_paper: the try block, and the except handler, which slices
\* paper.get('summary', '') again
enhance_result(threshold, paper, calls) ==
    LET summary == generate_engaging_summary(paper, calls[1])
    IN  IF summary.raised
        THEN LET fallback == summary_prefix(paper)
             IN  IF fallback.raised THEN fallback
                 ELSE Return(Enhancement(FALSE, fallback.value, "no_verdict", FallbackScore,
                                         "Enhancement failed"))
        ELSE LET relevancy == check_relevancy(calls[3])
             IN  Return(Enhancement(relevancy.score >= threshold, summary.value,
                                    generate_verdict(calls[2]), relevancy.score,
                                    relevancy.reason))

enhance_arxiv_paper ==
    /\ epc = "idle"
    /\ eresult' = enhance_result(ethreshold, epaper, ecalls)
    /\ epc' = "enhanced"
    /\ UNCHANGED <<basevars, lvars, svars, tvars, pvars, ethreshold, epaper, ecalls>>

\* -------------------------------------------------------------------------
\* formatters/linkedin.py: LinkedInFormatter.format, and the LinkedIn branch of
\* the generate command
\* -------------------------------------------------------------------------
\* n ordinary words
Repeat(w, n) == [k \in 1..n |-> w]

\* str.upper() on the first letter of a word
Capitalize(w) == CASE w = "damned" -> "Damned" [] w = "great" -> "Great" [] OTHER -> w

\* _clean_content on the contents of the model: citation markers are removed,
\* a trailing filler word becomes ".", and a lower-case first letter is raised
clean_content(content) ==
    LET IsWord(w) == w # "[1]"
        kept == SelectSeq(content.words, IsWord)
        text == kept \o Repeat("word", content.filler)
        cut == IF text # <<>> /\ text[Len(text)] = "great"
               THEN SubSeq(text, 1, Len(text) - 1) \o <<".">>
               ELSE text
    IN  IF cut = <<>> THEN cut ELSE <<Capitalize(cut[1])>> \o Tail(cut)

\* _build_post: the cleaned content, the source link and the hashtags
build_post(content) ==
    clean_content(content) \o <<"pin", "Read", "more:", "url", "#AI", "#MachineLearning">>

\* validation_result.get('approved', True)
approved(validation) ==
    IF "approved" \in DOMAIN validation THEN validation["approved"] ELSE TRUE

\* The end of format: the validation result is logged, and the post is built
\* and returned whatever it says
format_post(content, validation) == build_post(content)

\* LinkedInFormatter.format for one generated content and one outcome of the
\* validation call
linkedin_format ==
    /\ lpc = "idle"
    /\ \E content \in Contents, gen \in ValidationOutcomes :
          LET validation == validation_result(content, gen)
          IN  /\ lcontent' = content
              /\ lvalidation' = validation
              /\ lpost' = format_post(content, validation)
    /\ lpc' = "formatted"
    /\ UNCHANGED <<basevars, evars, svars, tvars, pvars, ldraft>>

\* validate_linkedin_content on a post of the model: citation markers and
\* length; the posts hold no 'hashtag#', no markdown and end in hashtags
validate_linkedin_content(post) ==
    /\ "[1]" \notin Range(post)
    /\ Len(post) <= WordLimit

\* The generate command after format returned: the draft is saved when
\* validate_linkedin_content passes, else the post is skipped
generate_linkedin_draft ==
    /\ lpc = "formatted"
    /\ IF validate_linkedin_content(lpost)
       THEN ldraft' = lpost /\ lpc' = "saved"
       ELSE ldraft' = ldraft /\ lpc' = "skipped"
    /\ UNCHANGED <<basevars, evars, svars, tvars, pvars, lcontent, lvalidation, lpost>>

\* -------------------------------------------------------------------------
\* api_server.py: POST /api/publish/linkedin/<content_id>
\* -------------------------------------------------------------------------
MaxRequests == 3        \* concurrent requests for the same content id

\* Requests for one content id, each served by its own thread
Requests == 1..MaxRequests

\* The first part of the handler: the row is read and checked, and the
\* connection is closed
publish_check(r) ==
    /\ spc[r] = "received"
    /\ IF stype = "missing"
       THEN /\ sresponse' = [sresponse EXCEPT ![r] = "Content not found"]
            /\ spc' = [spc EXCEPT ![r] = "answered"]
       ELSE IF stype # "linkedin"
       THEN /\ sresponse' = [sresponse EXCEPT ![r] = "Content is not a LinkedIn post"]
            /\ spc' = [spc EXCEPT ![r] = "answered"]
       ELSE IF sstatus = "published"
       THEN /\ sresponse' = [sresponse EXCEPT ![r] = "Content already published"]
            /\ spc' = [spc EXCEPT ![r] = "answered"]
       ELSE /\ spc' = [spc EXCEPT ![r] = "publishing"]
            /\ UNCHANGED sresponse
    /\ UNCHANGED <<basevars, evars, lvars, tvars, pvars, stype, sstatus, sposts>>

\* linkedin_publisher.publish: the post is made, or the publisher reports an
\* error
publish_post(r) ==
    /\ spc[r] = "publishing"
    /\ \E success \in BOOLEAN :
          IF success
          THEN /\ sposts' = sposts + 1
               /\ spc' = [spc EXCEPT ![r] = "posted"]
               /\ UNCHANGED sresponse
          ELSE /\ sresponse' = [sresponse EXCEPT ![r] = "error"]
               /\ spc' = [spc EXCEPT ![r] = "answered"]
               /\ UNCHANGED sposts
    /\ UNCHANGED <<basevars, evars, lvars, tvars, pvars, stype, sstatus>>

\* db.update_content_status(content_id, 'published', post_url) and the
\* success response
publish_update(r) ==
    /\ spc[r] = "posted"
    /\ sstatus' = "published"
    /\ sresponse' = [sresponse EXCEPT ![r] = "Successfully published to LinkedIn"]
    /\ spc' = [spc EXCEPT ![r] = "answered"]
    /\ UNCHANGED <<basevars, evars, lvars, tvars, pvars, stype, sposts>>

\* -------------------------------------------------------------------------
\* app/cli.py: the article CLI (generate, publish)
\* -------------------------------------------------------------------------
MaxArticles == 2        \* planned articles in the database
MaxCommands == 3        \* commands run one after another

\* Articles planned with plan_article; their status starts as "planned"
Articles == 1..MaxArticles

\* Ids a command can be given: those of the articles and one of no article
ArticleIds == 0..MaxArticles

\* update_article: only the fields given are written
update_article(id, status, markdown) ==
    /\ tstatus' = [tstatus EXCEPT ![id] = status]
    /\ tmarkdown' = IF markdown THEN [tmarkdown EXCEPT ![id] = TRUE] ELSE tmarkdown

\* cmd_generate up to the Medium call: the article is fetched, generated and
\* stored with db_status, which is "published" when --publish is given
cmd_generate(id, publish, generated) ==
    /\ tpc = "idle"
    /\ tran < MaxCommands
    /\ tran' = tran + 1
    /\ IF id \notin Articles \/ ~generated
       THEN UNCHANGED <<tpc, tid, tstatus, tmarkdown>>
       ELSE /\ update_article(id, IF publish THEN "published" ELSE "generated", TRUE)
            /\ tpc' = IF publish THEN "stored" ELSE "idle"
            /\ tid' = id
    /\ UNCHANGED <<basevars, evars, lvars, svars, pvars, tposted>>

\* cmd_generate with --publish, from the Medium call on: publish_article
\* returns or raises; the status is written again after it returned
cmd_generate_publish(returned) ==
    /\ tpc = "stored"
    /\ tpc' = "idle"
    /\ IF returned
       THEN /\ tposted' = [tposted EXCEPT ![tid] = @ + 1]
            /\ update_article(tid, "published", TRUE)
       ELSE UNCHANGED <<tposted, tstatus, tmarkdown>>
    /\ UNCHANGED <<basevars, evars, lvars, svars, pvars, tid, tran>>

\* cmd_publish: the stored markdown is published, then the status is written
cmd_publish(id, returned) ==
    /\ tpc = "idle"
    /\ tran < MaxCommands
    /\ tran' = tran + 1
    /\ IF id \notin Articles
       THEN UNCHANGED <<tid, tstatus, tmarkdown, tposted>>
       ELSE IF ~tmarkdown[id] \/ ~returned
       THEN UNCHANGED <<tid, tstatus, tmarkdown, tposted>>
       ELSE /\ tposted' = [tposted EXCEPT ![id] = @ + 1]
            /\ update_article(id, "published", TRUE)
            /\ tid' = id
    /\ UNCHANGED <<basevars, evars, lvars, svars, pvars, tpc>>

\* -------------------------------------------------------------------------
\* main.py: generate saving drafts, and the publish command
\* -------------------------------------------------------------------------
MaxItemIds == 1         \* items that generate is run for
MaxRows == 3            \* rows of generated_content

ItemIds == 1..MaxItemIds

ContentTypes == {"blog", "linkedin", "medium"}

Platforms == {"blog", "linkedin", "medium", "both", "all"}

\* data/drafts/<type>/<item id>.<ext>
draft_path(type, id) == <<type, id>>

\* Database.save_generated_content: always a new row, with status 'drafted'
save_generated_content(rows, paper_id, content_type, file_path) ==
    Append(rows, [paper_id |-> paper_id, content_type |-> content_type,
                  file_path |-> file_path, status |-> "drafted"])

\* Database.get_content_by_file_path: the ids of the rows fetchone can return;
\* the query has no ORDER BY
get_content_by_file_path(rows, file_path) ==
    {k \in DOMAIN rows : rows[k].file_path = file_path}

\* Database.update_content_status
update_content_status(rows, content_id, status) ==
    [rows EXCEPT ![content_id].status = status]

\* generate: the draft of one format is written to its file and saved to the
\* database
generate_save(id, type) ==
    /\ ppc = "idle"
    /\ Len(prows) < MaxRows
    /\ pdrafts' = pdrafts \cup {draft_path(type, id)}
    /\ prows' = save_generated_content(prows, id, type, draft_path(type, id))
    /\ UNCHANGED <<basevars, evars, lvars, svars, tvars,
                   ppc, pplatform, pcreds, pinit, ploops, pqueue, pmoved>>

\* Publishers initialised for a platform
publishers(platform) ==
    (IF platform \in {"blog", "both", "all"} THEN {"blog"} ELSE {})
    \cup (IF platform \in {"linkedin", "both", "all"} THEN {"linkedin"} ELSE {})
    \cup (IF platform \in {"medium", "all"} THEN {"medium"} ELSE {})

\* Draft loops a run with configured credentials goes through
loops(platform, creds) ==
    (IF platform \in {"blog", "both"} THEN {"blog"} ELSE {})
    \cup (IF platform \in {"linkedin", "both"} THEN {"linkedin"} ELSE {})
    \cup (IF platform \in {"medium", "all"} /\ creds.medium THEN {"medium"} ELSE {})

\* publish: the publishers are initialised, the LinkedIn credentials are
\* checked, and the drafts of the loops are listed
publish_begin(platform) ==
    /\ ppc = "idle"
    /\ pplatform' = platform
    /\ pinit' = publishers(platform)
    /\ IF platform \in {"linkedin", "both"} /\ ~pcreds.linkedin
       THEN /\ ppc' = "idle"
            /\ ploops' = {}
            /\ pqueue' = {}
       ELSE /\ ppc' = "publishing"
            /\ ploops' = loops(platform, pcreds)
            /\ pqueue' = {d \in pdrafts : d[1] \in loops(platform, pcreds)}
    /\ UNCHANGED <<basevars, evars, lvars, svars, tvars, pcreds, prows, pdrafts, pmoved>>

\* publish: one draft of a loop, with --approve. When the publisher succeeds
\* the row found by file path is updated and the file is moved; the database
\* calls are taken to succeed.
publish_draft(draft, success) ==
    /\ ppc = "publishing"
    /\ draft \in pqueue
    /\ pqueue' = pqueue \ {draft}
    /\ IF success
       THEN /\ IF get_content_by_file_path(prows, draft) = {}
               THEN UNCHANGED prows
               ELSE \E content_id \in get_content_by_file_path(prows, draft) :
                       prows' = update_content_status(prows, content_id, "published")
            /\ pdrafts' = pdrafts \ {draft}
            /\ pmoved' = pmoved \cup {draft}
       ELSE UNCHANGED <<prows, pdrafts, pmoved>>
    /\ UNCHANGED <<basevars, evars, lvars, svars, tvars, ppc, pplatform, pcreds, pinit, ploops>>

\* publish: the loops are over
publish_end ==
    /\ ppc = "publishing"
    /\ pqueue = {}
    /\ ppc' = "idle"
    /\ UNCHANGED <<basevars, evars, lvars, svars, tvars,
                   pplatform, pcreds, pinit, ploops, pqueue, prows, pdrafts, pmoved>>

AInit(n) ==
    /\ stages \in SeqsNoDup(ConfigStageNames, n)
    /\ pc = "idle"
    /\ item = [id |-> "", title |-> "", url |-> "", source |-> "", summary |-> ""]
    /\ idx = 0
    /\ analysis = EmptyDict
    /\ diagrams = EmptyDict
    /\ attempts = <<>>

\* The analyzer before any call
AIdle ==
    /\ stages = <<>>
    /\ entry = "analyze"
    /\ pc = "idle"
    /\ item = [id |-> "", title |-> "", url |-> "", source |-> "", summary |-> ""]
    /\ idx = 0
    /\ analysis = EmptyDict
    /\ diagrams = EmptyDict
    /\ attempts = <<>>

DIdle ==
    /\ dpc = "idle"
    /\ dconfig = [similarity_threshold |-> [num |-> 17, den |-> 20], use_url_hash |-> TRUE]
    /\ ditems = <<>>
    /\ dout = <<>>
    /\ dout2 = <<>>

RIdle ==
    /\ rpc = "idle"
    /\ ritems = <<>>
    /\ rresult = Return(<<>>)

FIdle ==
    /\ fpc = "idle"
    /\ fconfig = FilterConfig(7, <<>>, <<>>, <<>>, 100)
    /\ fitems = <<>>
    /\ fresult = Return(<<>>)

CInit(config) ==
    /\ cpc = "idle"
    /\ cconfig = config
    /\ now = StartTime
    /\ last_request_time = 0
    /\ attempt = 0
    /\ cattempts = <<>>
    /\ crequests = <<>>
    /\ cresult = Pending
    /\ ccalls = 0

CIdle == CInit([max_retries |-> 3, requests_per_minute |-> 20])

BInit(format, count, items) ==
    /\ bpc = "loop"
    /\ bformat = format
    /\ bcount = count
    /\ bitems = items
    /\ bidx = 1
    /\ generated_count = 0
    /\ bprocessed = {}
    /\ bsaved = {}
    /\ bmessage = NoMessage
    /\ bexit = 0

BIdle ==
    BInit("both", 1, <<[has_title |-> TRUE, has_id |-> TRUE, fails |-> "no",
                        linkedin_valid |-> TRUE]>>)

EIdle ==
    /\ epc = "idle"
    /\ ethreshold = 60
    /\ epaper = [summary |-> "text"]
    /\ ecalls = <<[raises |-> TRUE], [raises |-> TRUE], [raises |-> TRUE]>>
    /\ eresult = Return(<<>>)

LIdle ==
    /\ lpc = "idle"
    /\ lcontent = [words |-> <<>>, filler |-> 0]
    /\ lvalidation = EmptyDict
    /\ lpost = <<>>
    /\ ldraft = <<>>

SInit(type, status) ==
    /\ spc = [r \in Requests |-> "received"]
    /\ stype = type
    /\ sstatus = status
    /\ sposts = 0
    /\ sresponse = [r \in Requests |-> "none"]

SIdle == SInit("linkedin", "drafted")

TIdle ==
    /\ tpc = "idle"
    /\ tid = 0
    /\ tstatus = [a \in Articles |-> "planned"]
    /\ tmarkdown = [a \in Articles |-> FALSE]
    /\ tposted = [a \in Articles |-> 0]
    /\ tran = 0

PInit(creds) ==
    /\ ppc = "idle"
    /\ pplatform = "none"
    /\ pcreds = creds
    /\ pinit = {}
    /\ ploops = {}
    /\ pqueue = {}
    /\ prows = <<>>
    /\ pdrafts = {}
    /\ pmoved = {}

PIdle == PInit([linkedin |-> TRUE, medium |-> TRUE])

ZIdle == EIdle /\ LIdle /\ SIdle /\ TIdle /\ PIdle

XIdle == RIdle /\ FIdle /\ CIdle /\ BIdle /\ ZIdle

VIdle ==
    /\ vpc = "idle"
    /\ vcontent = [words |-> <<>>, filler |-> 0]
    /\ vgen = Raise(<<>>)
    /\ vresult = EmptyDict

BaseIdle == AIdle /\ VIdle /\ DIdle /\ RIdle /\ FIdle /\ CIdle /\ BIdle

InitAnalyze == entry = "analyze" /\ AInit(MaxStages) /\ VIdle /\ DIdle /\ XIdle

NextAnalyze == analyze_begin \/ analyze_stage \/ analyze_return

SpecAnalyze == InitAnalyze /\ [][NextAnalyze]_vars

InitMedium == entry = "analyze_for_medium" /\ AInit(MaxMediumStages) /\ VIdle /\ DIdle /\ XIdle

NextMedium ==
    \/ analyze_begin \/ analyze_stage \/ analyze_return
    \/ medium_methodology \/ medium_results \/ medium_synthesis
    \/ diagram_architecture \/ diagram_flow \/ diagram_comparison

SpecMedium == InitMedium /\ [][NextMedium]_vars

InitValidate == AIdle /\ VIdle /\ DIdle /\ XIdle

NextValidate == validate_linkedin_safety

SpecValidate == InitValidate /\ [][NextValidate]_vars

InitDedup ==
    /\ AIdle
    /\ VIdle
    /\ XIdle
    /\ dpc = "idle"
    /\ dconfig \in DedupConfigs
    /\ ditems \in UNION {[1..n -> DedupItems] : n \in 0..MaxItems}
    /\ dout = <<>>
    /\ dout2 = <<>>

NextDedup == dedup_first \/ dedup_again

SpecDedup == InitDedup /\ [][NextDedup]_vars

InitRank ==
    /\ AIdle
    /\ VIdle
    /\ DIdle
    /\ ZIdle
    /\ FIdle
    /\ CIdle
    /\ BIdle
    /\ rpc = "idle"
    /\ ritems \in UNION {[1..n -> RankItems] : n \in 0..MaxRankItems}
    /\ rresult = Return(<<>>)

NextRank == rank

SpecRank == InitRank /\ [][NextRank]_vars

InitFilter ==
    /\ AIdle
    /\ VIdle
    /\ DIdle
    /\ ZIdle
    /\ RIdle
    /\ CIdle
    /\ BIdle
    /\ fpc = "idle"
    /\ fconfig \in FilterConfigs
    /\ fitems \in UNION {[1..n -> FilterItems] : n \in 0..MaxFilterItems}
    /\ fresult = Return(<<>>)

NextFilter == filter

SpecFilter == InitFilter /\ [][NextFilter]_vars

InitClient ==
    /\ AIdle
    /\ VIdle
    /\ DIdle
    /\ ZIdle
    /\ RIdle
    /\ FIdle
    /\ BIdle
    /\ \E config \in ClientConfigs : CInit(config)

NextClient == generate_begin \/ generate_attempt \/ client_wait

SpecClient == InitClient /\ [][NextClient]_vars

\* The command reaches its loop with at least one item, and items is cut to
\* count
InitBatch ==
    /\ AIdle
    /\ VIdle
    /\ DIdle
    /\ ZIdle
    /\ RIdle
    /\ FIdle
    /\ CIdle
    /\ \E format \in Formats, n \in 1..MaxBatchItems :
          \E items \in [1..n -> BatchItems], count \in {n, n + 1} :
              BInit(format, count, items)

NextBatch == generate_item \/ generate_finish

SpecBatch == InitBatch /\ [][NextBatch]_vars

InitEnhance ==
    /\ BaseIdle
    /\ PIdle
    /\ TIdle
    /\ LIdle
    /\ SIdle
    /\ epc = "idle"
    /\ ethreshold \in Thresholds10
    /\ epaper \in Papers
    /\ ecalls \in [1..3 -> CallOutcomes]
    /\ eresult = Return(<<>>)

NextEnhance == enhance_arxiv_paper

SpecEnhance == InitEnhance /\ [][NextEnhance]_vars

InitLinkedIn ==
    /\ BaseIdle
    /\ PIdle
    /\ TIdle
    /\ EIdle
    /\ LIdle
    /\ SIdle

NextLinkedIn == linkedin_format \/ generate_linkedin_draft

SpecLinkedIn == InitLinkedIn /\ [][NextLinkedIn]_vars

InitServer ==
    /\ BaseIdle
    /\ PIdle
    /\ TIdle
    /\ EIdle
    /\ LIdle
    /\ \E type \in {"linkedin", "blog", "missing"}, status \in {"drafted", "published"} :
          SInit(type, status)

NextServer == \E r \in Requests : publish_check(r) \/ publish_post(r) \/ publish_update(r)

SpecServer == InitServer /\ [][NextServer]_vars

InitArticle ==
    /\ BaseIdle
    /\ PIdle
    /\ EIdle
    /\ LIdle
    /\ SIdle
    /\ TIdle

NextArticle ==
    \/ \E id \in ArticleIds, publish \in BOOLEAN, generated \in BOOLEAN :
          cmd_generate(id, publish, generated)
    \/ \E returned \in BOOLEAN : cmd_generate_publish(returned)
    \/ \E id \in ArticleIds, returned \in BOOLEAN : cmd_publish(id, returned)

SpecArticle == InitArticle /\ [][NextArticle]_vars

InitPublish ==
    /\ BaseIdle
    /\ EIdle
    /\ LIdle
    /\ SIdle
    /\ TIdle
    /\ \E creds \in [linkedin : BOOLEAN, medium : BOOLEAN] : PInit(creds)

NextPublish ==
    \/ \E id \in ItemIds, type \in ContentTypes : generate_save(id, type)
    \/ \E platform \in Platforms : publish_begin(platform)
    \/ \E draft \in ContentTypes \X ItemIds, success \in BOOLEAN : publish_draft(draft, success)
    \/ publish_end

SpecPublish == InitPublish /\ [][NextPublish]_vars

\* -------------------------------------------------------------------------
\* Properties of ContentAnalyzer
\* -------------------------------------------------------------------------
Returned == pc = "returned"

\* The k-th stage of the loop has run
StageRan(k) == k <= Len(attempts)

\* client.generate was called for the k-th stage and raised / returned
GenRaised(k) == StageRan(k) /\ attempts[k].built /\ attempts[k].raised
GenOk(k) == StageRan(k) /\ attempts[k].built /\ ~attempts[k].raised

Without(s, k) == SubSeq(s, 1, k - 1) \o SubSeq(s, k + 1, Len(s))

StartsWithError(v) == Len(v) >= 1 /\ v[1] = "Error: "

InOrderOf(sub, s) ==
    LET Member(x) == x \in Range(sub) IN sub = SelectSeq(s, Member)

\* C1: when the generation call of stage k raises and the generation calls of all
\* other stages succeed, analyze returns a value for every stage, the value of
\* stage k starts with "Error:", and completed_stages is the configured list
\* without stage k; and a stage that failed is always followed by a run of the
\* next configured stage.
Thm_C1 ==
    Returned =>
        /\ \A k \in 1..Len(stages) :
              (GenRaised(k) /\ \A j \in 1..Len(stages) : j # k => GenOk(j)) =>
                  /\ \A s \in Range(stages) : s \in DOMAIN analysis
                  /\ StartsWithError(analysis[stages[k]])
                  /\ analysis["completed_stages"] = Without(stages, k)
        /\ \A k \in 1..(Len(stages) - 1) :
              (StageRan(k) /\ ~GenOk(k)) => StageRan(k + 1)

Wit_C1 ==
    /\ Returned
    /\ Len(stages) = 3
    /\ GenOk(1) /\ GenRaised(2) /\ GenOk(3)

\* C2: after analyze returns, every configured stage is in exactly one of
\* completed_stages and failed_stages, holds the stripped response if completed
\* and an "Error: <message>" placeholder if failed, and both lists follow the
\* configured order.
Thm_C2 ==
    Returned =>
        LET comp == analysis["completed_stages"]
            fail == analysis["failed_stages"]
        IN  /\ Range(comp) \cup Range(fail) = Range(stages)
            /\ Range(comp) \cap Range(fail) = {}
            /\ InOrderOf(comp, stages)
            /\ InOrderOf(fail, stages)
            /\ \A k \in 1..Len(stages) :
                 LET s == stages[k]
                 IN  /\ s \in DOMAIN analysis
                     /\ s \in Range(comp) =>
                            GenOk(k) /\ analysis[s] = strip(attempts[k].response)
                     /\ s \in Range(fail) =>
                            StartsWithError(analysis[s]) /\ Len(analysis[s]) >= 2

Wit_C2 ==
    /\ Returned
    /\ Len(analysis["completed_stages"]) = 1
    /\ Len(analysis["failed_stages"]) = 2

\* C3: when analyze returns, success is TRUE exactly when failed_stages is empty,
\* which is exactly when every stage's generation call was made and returned.
Thm_C3 ==
    Returned =>
        /\ analysis["success"] = (analysis["failed_stages"] = <<>>)
        /\ (analysis["failed_stages"] = <<>>) = (\A k \in 1..Len(stages) : GenOk(k))

Wit_C3 ==
    /\ Returned
    /\ Len(stages) = 2
    /\ analysis["success"] = FALSE
    /\ Len(analysis["failed_stages"]) = 1

\* C4 as stated: a stage name with no template is fatal, so it is never recorded
\* as a failed stage of a continuing run.
CE_C4 ==
    pc # "idle" =>
        \A s \in Range(stages) :
            s \notin DOMAIN prompts => s \notin Range(analysis["failed_stages"])

\* C4 amended: the ValueError of get_prompt for a stage name with no template is
\* caught by analyze like any other stage failure: no generation call is made,
\* the stage is put in failed_stages with the value
\* "Error: Unknown prompt stage: <name>", and the remaining stages still run.
Thm_C4 ==
    /\ pc # "idle" =>
         \A k \in 1..Len(stages) :
             (StageRan(k) /\ stages[k] \notin DOMAIN prompts) =>
                 /\ ~attempts[k].built
                 /\ stages[k] \in Range(analysis["failed_stages"])
                 /\ analysis[stages[k]] =
                        <<"Error: ", "Unknown prompt stage: ", stages[k]>>
    /\ Returned => \A k \in 1..Len(stages) : StageRan(k) /\ stages[k] \in DOMAIN analysis

Wit_C4 ==
    /\ Returned
    /\ Len(stages) = 3
    /\ stages[1] \notin DOMAIN prompts
    /\ GenOk(2)
    /\ stages[2] \in Range(analysis["completed_stages"])

SynthesisStages == {"blog_synthesis", "linkedin_formatting", "medium_synthesis"}

\* C6 as stated: whenever blog_synthesis, linkedin_formatting or medium_synthesis
\* runs as a configured stage, its prompt is built from title, url and the
\* formatted prior stage outputs, not from the raw item text.
CE_C6 ==
    \A k \in 1..Len(stages) :
        (StageRan(k) /\ stages[k] \in SynthesisStages) =>
            /\ attempts[k].built
            /\ DOMAIN attempts[k].prompt.args = {"title", "url", "analyzed_content"}
            /\ attempts[k].prompt.args["title"] = item.title
            /\ attempts[k].prompt.args["url"] = item.url

\* -------------------------------------------------------------------------
\* Properties of analyze_for_medium
\* -------------------------------------------------------------------------
MediumReturned == pc = "medium_returned"

\* The extra steps run after the stage loop, in the order of the code
ExtraSteps ==
    <<"methodology", "results", "medium_synthesis",
      "diagram_architecture", "diagram_flow", "diagram_comparison">>

DiagramKey ==
    [diagram_architecture |-> "architecture", diagram_flow |-> "flow",
     diagram_comparison |-> "comparison"]

ExtraAttempts == SubSeq(attempts, Len(stages) + 1, Len(attempts))

AttemptOk(a) == a.built /\ ~a.raised

\* C5 as stated: each of the six extra calls is attempted whatever the others did.
CE_C5 ==
    MediumReturned =>
        \A name \in Range(ExtraSteps) :
            \E n \in 1..Len(ExtraAttempts) : ExtraAttempts[n].step = name

\* C5 amended: methodology, results, medium_synthesis and the diagram generation
\* share one try block, so the first of the three sections to fail skips every
\* later extra call (no diagrams entry is written) and the method still returns;
\* once the diagram generation is reached, each of its three diagram steps runs
\* whatever the other diagrams did, and a failed diagram is left as an empty
\* string.
Thm_C5 ==
    MediumReturned =>
        LET ex == ExtraAttempts
            n == Len(ex)
        IN  /\ n >= 1
            /\ \A m \in 1..n : ex[m].step = ExtraSteps[m]
            /\ \A m \in 1..n : (m < n /\ m <= 3) => AttemptOk(ex[m])
            /\ n <= 3 => ~AttemptOk(ex[n]) /\ "diagrams" \notin DOMAIN analysis
            /\ n > 3 =>
                 /\ n = 6
                 /\ "diagrams" \in DOMAIN analysis
                 /\ DOMAIN analysis["diagrams"] = {"architecture", "flow", "comparison"}
                 /\ \A m \in 4..6 :
                      analysis["diagrams"][DiagramKey[ex[m].step]] =
                          IF AttemptOk(ex[m]) THEN strip(ex[m].response) ELSE <<>>

Wit_C5 ==
    /\ MediumReturned
    /\ Len(ExtraAttempts) = 6
    /\ ~AttemptOk(ExtraAttempts[4])
    /\ ExtraAttempts[4].built
    /\ AttemptOk(ExtraAttempts[6])

\* -------------------------------------------------------------------------
\* Properties of validate_linkedin_safety
\* -------------------------------------------------------------------------
ValidationKeys == {"is_valid", "validation_score", "issues", "approved", "summary"}

\* No JSON object can be parsed from any part of the response
NoJsonObjectIn(response) ==
    \A a, b \in 1..Len(response) : ~IsJsonObject(SubSeq(response, a, b))

\* C7: when the response to the validation prompt holds no parseable JSON object,
\* validate_linkedin_safety still returns a dict with the keys is_valid,
\* validation_score, issues, approved and summary.
Thm_C7 ==
    (vpc = "validated" /\ ~vgen.raised /\ NoJsonObjectIn(vgen.value)) =>
        ValidationKeys \subseteq DOMAIN vresult

\* a response whose braces enclose free text: extracted, rejected by json.loads
Wit_C7 ==
    /\ vpc = "validated"
    /\ ~vgen.raised
    /\ vgen.value = <<"{", "txt", "}">>
    /\ ValidationKeys \subseteq DOMAIN vresult

\* -------------------------------------------------------------------------
\* Properties of Deduplicator.deduplicate
\* -------------------------------------------------------------------------
\* The similarity the code computes for a later item against an earlier one
Similarity(later, earlier) ==
    calculate_similarity(normalize_title(later), normalize_title(earlier))

FracEq(x, y) == x.num * y.den = y.num * x.den

\* sub is s with some elements removed, the rest in their order
IsSubsequence(sub, s) ==
    \E f \in [1..Len(sub) -> 1..Len(s)] :
        /\ \A n \in 1..Len(sub) : sub[n] = s[f[n]]
        /\ \A n, m \in 1..Len(sub) : n < m => f[n] < f[m]

\* C8: deduplicate applied to its own output returns the same items in the same
\* order.
Thm_C8 == dpc = "twice" => dout2 = dout

Wit_C8 ==
    /\ dpc = "twice"
    /\ Len(ditems) = 3
    /\ Len(dout) = 2
    /\ dout2 = dout

\* C9: the result of deduplicate is the input with some items removed, in input
\* order; with URL hashing on no two results share a URL; and no result's
\* normalized title reaches the threshold against the normalized title of an
\* earlier result.
Thm_C9 ==
    dpc # "idle" =>
        /\ IsSubsequence(dout, ditems)
        /\ dconfig.use_url_hash =>
               \A n, m \in 1..Len(dout) : n # m => dout[n].url # dout[m].url
        /\ \A n, m \in 1..Len(dout) :
               n < m => ~FracGeq(Similarity(dout[m], dout[n]), dconfig.similarity_threshold)

\* one item dropped for its URL alone, one for its title alone
Wit_C9 ==
    /\ dpc = "once"
    /\ dconfig.use_url_hash
    /\ Len(ditems) = 3
    /\ ditems[2].url = ditems[1].url
    /\ ~FracGeq(Similarity(ditems[2], ditems[1]), dconfig.similarity_threshold)
    /\ ditems[3].url # ditems[1].url
    /\ FracGeq(Similarity(ditems[3], ditems[1]), dconfig.similarity_threshold)
    /\ dout = <<ditems[1]>>

\* C10: of two items with different URLs, the second is dropped when its title
\* similarity to the first equals the threshold exactly, and both are kept when
\* the similarity is below the threshold.
Thm_C10 ==
    (dpc # "idle" /\ Len(ditems) = 2 /\ ditems[1].url # ditems[2].url) =>
        LET sim == Similarity(ditems[2], ditems[1])
            th == dconfig.similarity_threshold
        IN  /\ FracEq(sim, th) => dout = <<ditems[1]>>
            /\ ~FracGeq(sim, th) => dout = ditems

Wit_C10 ==
    /\ dpc = "once"
    /\ Len(ditems) = 2
    /\ ditems[1].url # ditems[2].url
    /\ FracEq(Similarity(ditems[2], ditems[1]), dconfig.similarity_threshold)
    /\ dout = <<ditems[1]>>

\* -------------------------------------------------------------------------
\* Ranker claims
\* -------------------------------------------------------------------------
RankReturned == rpc = "ranked" /\ ~rresult.raised

\* The ranked list holds every input item once, with the score computed for it
IsRankingOf(out, items) ==
    /\ Len(out) = Len(items)
    /\ {out[i].pos : i \in 1..Len(out)} = 1..Len(items)
    /\ \A i \in 1..Len(out) :
          /\ out[i].item = items[out[i].pos]
          /\ out[i].score = calculate_score(out[i].item).value

\* C11: rank returns the input items in non-increasing order of the score
\* written onto them, and items with equal score keep their relative input
\* order.
Thm_C11 ==
    RankReturned =>
        LET out == rresult.value
        IN  /\ IsRankingOf(out, ritems)
            /\ \A i, j \in 1..Len(out) :
                  i < j => /\ out[i].score >= out[j].score
                           /\ out[i].score = out[j].score => out[i].pos < out[j].pos

\* A ranking that moved an item forward past two different items of equal score
Wit_C11 ==
    /\ RankReturned
    /\ Len(rresult.value) = 3
    /\ rresult.value[1].pos = 3
    /\ rresult.value[2].score = rresult.value[3].score
    /\ rresult.value[2].item # rresult.value[3].item
    /\ rresult.value[1].score > rresult.value[2].score

\* Two ranked GitHub items that differ in stars only, a with fewer stars than b.
\* The engagement sub-score in hundredths is the star count, so it is below its
\* cap while the star count is below TopScore.
StarPair(a, b) ==
    /\ a.item.source = "github"
    /\ a.item.stars.k = "num"
    /\ b.item.stars.k = "num"
    /\ a.item.stars.v < b.item.stars.v
    /\ [a.item EXCEPT !.stars = b.item.stars] = b.item

RankedPairs ==
    IF RankReturned
    THEN {<<rresult.value[i], rresult.value[j]>> : i, j \in 1..Len(rresult.value)}
    ELSE {}

\* C12 as stated: more stars give a strictly greater written score while
\* stars/100 is below 10.0.
CE_C12 ==
    \A pr \in RankedPairs :
        (StarPair(pr[1], pr[2]) /\ pr[2].item.stars.v < TopScore)
            => pr[1].score < pr[2].score

\* C12: for a GitHub item under the default weights, more stars never lower
\* the written score, and raise it when the increase is at least 5 stars and
\* stars/100 does not exceed 10.0 after it.
Thm_C12 ==
    \A pr \in RankedPairs :
        StarPair(pr[1], pr[2]) =>
            /\ pr[1].score <= pr[2].score
            /\ (pr[2].item.stars.v >= pr[1].item.stars.v + 5
                /\ pr[2].item.stars.v <= TopScore) => pr[1].score < pr[2].score

\* A ranking with two such items, 5 stars apart, the second scored higher
Wit_C12 ==
    \E pr \in RankedPairs :
        /\ StarPair(pr[1], pr[2])
        /\ pr[2].item.stars.v = pr[1].item.stars.v + 5
        /\ pr[1].score < pr[2].score

\* C13 as stated: rank does not raise, whatever the numeric fields hold.
CE_C13 == rpc = "ranked" => ~rresult.raised
\* -------------------------------------------------------------------------
\* Relevance filter claims
\* -------------------------------------------------------------------------
FilterReturned == fpc = "filtered" /\ ~fresult.raised

\* The n-th input item is in the list filter returned
InOutput(n) == \E i \in 1..Len(fresult.value) : fresult.value[i].pos = n

\* The case-folded title+summary contains a configured exclude keyword
Excluded(it) ==
    \E k \in 1..Len(fconfig.exclude_keywords) :
        Contains(lower(title_summary(it)), lower(fconfig.exclude_keywords[k]))

\* published is missing, or no supported format parses it
Unparsed(it) ==
    \/ it.published.k # "date"
    \/ \A n \in 1..Len(DateFormats) : it.published.form \notin DateFormats[n]

\* C14: an item whose published value is missing or unparseable is never
\* rejected for its age: it is dropped only when excluded or not relevant.
Thm_C14 ==
    FilterReturned =>
        \A n \in 1..Len(fitems) :
            (Unparsed(fitems[n]) /\ ~Excluded(fitems[n])) =>
                (InOutput(n) <=> has_relevant_keywords(fconfig, fitems[n]).value)

\* With max_age_days = 0, an item carrying an unparseable date 30 days old is
\* accepted
Wit_C14 ==
    /\ FilterReturned
    /\ fconfig.max_age_days = 0
    /\ \E n \in 1..Len(fitems) :
          /\ fitems[n].published = Date("rfc822_gmt", 30)
          /\ InOutput(n)

\* C15: an item whose case-folded title+summary contains an exclude keyword
\* is absent from the output of filter.
Thm_C15 ==
    FilterReturned =>
        \A n \in 1..Len(fitems) : Excluded(fitems[n]) => ~InOutput(n)

\* A recent item with a keyword match and high engagement is dropped for an
\* exclude keyword that matches only after case folding
Wit_C15 ==
    /\ FilterReturned
    /\ \E n \in 1..Len(fitems) :
          /\ Excluded(fitems[n])
          /\ ~Contains(title_summary(fitems[n]), <<"t", "v">>)
          /\ is_recent(fconfig, fitems[n])
          /\ has_keyword_match(fconfig, fitems[n])
          /\ fitems[n].points = Num(500)
          /\ ~InOutput(n)

\* The numeric value of an engagement field, 0 when the key is absent
FieldValue(it, key) == GetNum(it[key], 0).v

\* The first non-zero value among engagement_score, points, stars, else 0
Signal(it) ==
    LET nonzero == {n \in 1..Len(engagement_keys) : FieldValue(it, engagement_keys[n]) # 0}
    IN  IF nonzero = {} THEN 0
        ELSE FieldValue(it, engagement_keys[CHOOSE n \in nonzero : \A m \in nonzero : n <= m])

NoneFree(it) ==
    \A n \in 1..Len(engagement_keys) : it[engagement_keys[n]] # None

KeywordsConfigured == fconfig.high_priority # <<>> \/ fconfig.medium_priority # <<>>

\* The case of C16: recent, not excluded, no keyword match
EngagementCase(it) ==
    /\ NoneFree(it)
    /\ is_recent(fconfig, it)
    /\ ~Excluded(it)
    /\ ~has_keyword_match(fconfig, it)

\* C16: with keyword lists configured, a recent, non-excluded item without a
\* keyword match is accepted exactly when its engagement signal is at least
\* min_engagement_threshold.
Thm_C16 ==
    (FilterReturned /\ KeywordsConfigured) =>
        \A n \in 1..Len(fitems) :
            EngagementCase(fitems[n]) =>
                (InOutput(n) <=> Signal(fitems[n]) >= fconfig.min_engagement_threshold)

\* One item accepted with a signal equal to the threshold, another rejected
\* because its first non-zero value is below it though a later one is above
Wit_C16 ==
    /\ FilterReturned
    /\ KeywordsConfigured
    /\ \E n, m \in 1..Len(fitems) :
          /\ EngagementCase(fitems[n])
          /\ Signal(fitems[n]) = fconfig.min_engagement_threshold
          /\ InOutput(n)
          /\ EngagementCase(fitems[m])
          /\ fitems[m].engagement_score = Num(50)
          /\ fitems[m].points = Num(150)
          /\ ~InOutput(m)
\* -------------------------------------------------------------------------
\* LLM client claims
\* -------------------------------------------------------------------------
\* A generate call has been made and has ended
GenerateEnded == cpc = "idle" /\ ccalls > 0

\* C17 as stated: generate never ends without a text result or an exception.
CE_C17 == GenerateEnded => cresult.kind \in {"text", "exception"}

\* C18 as stated: no attempt follows a non-transient failure.
CE_C18 ==
    \A k \in 1..Len(cattempts) :
        cattempts[k].outcome = "permanent" => k = Len(cattempts)

\* C18: every failed attempt, whatever its kind, is followed by another
\* attempt unless it was the last allowed one, and then generate raises the
\* generic "Failed after N attempts" exception; a later success is returned.
Thm_C18 ==
    GenerateEnded =>
        /\ Len(cattempts) <= cconfig.max_retries
        /\ \A k \in 1..Len(cattempts) :
              IF cattempts[k].outcome = "text"
              THEN k = Len(cattempts) /\ cresult = Text
              ELSE /\ k < cconfig.max_retries => k < Len(cattempts)
                   /\ k = cconfig.max_retries =>
                         cresult = Failed(cconfig.max_retries, cattempts[k].outcome)

\* generate returned text from an attempt made after a non-transient failure
Wit_C18 ==
    /\ GenerateEnded
    /\ Len(cattempts) >= 2
    /\ cattempts[1].outcome = "permanent"
    /\ cresult = Text

\* C19 as stated: with requests_per_minute = R > 0, consecutive requests of
\* the client start at least 60/R seconds apart.
CE_C19 ==
    cconfig.requests_per_minute > 0 =>
        \A k \in 1..(Len(crequests) - 1) :
            (crequests[k + 1] - crequests[k]) * cconfig.requests_per_minute >= Minute
\* -------------------------------------------------------------------------
\* Generate command claims
\* -------------------------------------------------------------------------
\* C20 as stated: when the command has ended, every item was processed and
\* the final message was printed with the number of items generated.
CE_C20 ==
    bpc \in {"done", "aborted"} =>
        /\ bprocessed = 1..Len(bitems)
        /\ bmessage = Message(generated_count, bcount)
\* C21 as stated: after the loop the command exits with status 1 exactly when
\* no item was generated.
CE_C21 == bpc = "done" => (bexit = 1 <=> generated_count = 0)

\* -------------------------------------------------------------------------
\* ArxivEnhancer claims
\* -------------------------------------------------------------------------
AllCallsRaise == \A n \in 1..3 : ecalls[n].raises

\* C22 as stated: when every LLM call raises, enhance_arxiv_paper does not
\* raise and returns is_relevant = False with relevancy_score = 5.0, and the
\* flag equals the is_relevant entry of the data.
CE_C22 ==
    (epc = "enhanced" /\ AllCallsRaise) =>
        /\ ~eresult.raised
        /\ eresult.value.flag = FALSE
        /\ eresult.value.data.relevancy_score = FallbackScore
        /\ eresult.value.data.is_relevant = eresult.value.flag

\* -------------------------------------------------------------------------
\* Deduplicator: what is recorded as seen
\* -------------------------------------------------------------------------
\* Item it duplicates item kept: same URL (when URL hashing is on), or a
\* normalized title similar to kept's at or above the threshold
DuplicateOf(it, kept) ==
    \/ dconfig.use_url_hash /\ hash_url(it.url) = hash_url(kept.url)
    \/ is_similar_to_existing(normalize_title(it), <<normalize_title(kept)>>,
                              dconfig.similarity_threshold)

\* C23 as stated: every item deduplicate dropped has the URL of a kept item
\* or a title similar to the title of a kept item.
CE_C23 ==
    dpc # "idle" =>
        \A n \in 1..Len(ditems) :
            ditems[n] \notin Range(dout) =>
                \E k \in 1..Len(dout) : DuplicateOf(ditems[n], dout[k])

\* -------------------------------------------------------------------------
\* ContentAnalyzer: what the synthesis prompts are given
\* -------------------------------------------------------------------------
\* C24 as stated: the analysis text in the prompt built for a synthesis stage
\* never carries the "Error: ..." placeholder of a failed stage.
CE_C24 ==
    \A k \in 1..Len(attempts) :
        (attempts[k].built /\ attempts[k].step \in NeedsFullAnalysis) =>
            "Error: " \notin Range(attempts[k].prompt.args.analyzed_content)

\* -------------------------------------------------------------------------
\* Fallback validator: critical issues
\* -------------------------------------------------------------------------
\* validate_linkedin_safety returned the result of _basic_validation
FellBack == vpc = "validated" /\ (vgen.raised \/ NoJsonObjectIn(vgen.value))

\* C25 as stated: a fallback result that records an issue of severity
\* 'critical' has neither approved nor is_valid set.
CE_C25 ==
    FellBack =>
        ((\E n \in 1..Len(vresult.issues) : vresult.issues[n].severity = "critical")
            => (~vresult.approved /\ ~vresult.is_valid))

\* -------------------------------------------------------------------------
\* LinkedIn post safety
\* -------------------------------------------------------------------------
\* C26 as stated: a post is returned by format, and saved as a draft, only
\* for content whose safety validation is approved.
CE_C26 ==
    (lpc \in {"formatted", "saved"} /\ ~approved(lvalidation)) =>
        (lpost = <<>> /\ ldraft = <<>>)

\* -------------------------------------------------------------------------
\* API server: concurrent publish requests
\* -------------------------------------------------------------------------
\* C27 as stated: whatever the interleaving of the requests for one content
\* id, the content is posted to LinkedIn at most once.
CE_C27 == sposts <= 1

\* -------------------------------------------------------------------------
\* Article CLI: stored status and the Medium call
\* -------------------------------------------------------------------------
\* C28 as stated: an article's stored status is "published" only after a
\* Medium publish call for that article has returned; while none has, and in
\* particular when publishing raised, the status is not "published".
CE_C28 == \A a \in Articles : tstatus[a] = "published" => tposted[a] > 0

\* -------------------------------------------------------------------------
\* Publish command: database status and platforms
\* -------------------------------------------------------------------------
\* C29 as stated: once a draft file has been published and moved out of
\* data/drafts, no row with its file_path still has status 'drafted'.
CE_C29 ==
    \A f \in pmoved \ pdrafts :
        \A k \in DOMAIN prows : prows[k].file_path = f => prows[k].status # "drafted"

\* C30 as stated: a run with platform 'all' goes through the drafts of every
\* platform whose publisher it initialised.
CE_C30 ==
    (pplatform = "all" /\ ppc = "publishing" /\ pcreds.medium) => pinit \subseteq ploops
====
